---- MODULE Spec2Model ----
(***************************************************************************)
(* A model of the Sleep Optimizer agent: the two-tier memory (STM, LTM)    *)
(* over the document store, and the task pipeline that reads and writes    *)
(* it.                                                                     *)
(*                                                                         *)
(* Conventions.                                                            *)
(*  - A Python dict is a function whose DOMAIN is the set of keys present. *)
(*  - An Optional value is a sequence of length 0 (None) or 1.             *)
(*  - A session's duration is an integer in tenths of an hour (80 is      *)
(*    8.0 h); computed numbers are fractions, in hours.                    *)
(*  - Time is an integer number of days; a naive datetime is its day.      *)
(*  - A session is a record of all its fields; "" / 0 stand for a field    *)
(*    that is absent or falsy (Python's s.get(f) is falsy for both).       *)
(***************************************************************************)
EXTENDS Integers, Sequences, FiniteSets, TLC

VARIABLES
    store,      \* user -> [stm: Optional STM document, ltm: Optional LTM document]
    now,        \* datetime.utcnow(), in days
    last,       \* the memory call that produced this state (for the properties)
    reqs,       \* the save_sessions calls in flight, by request
    pc,         \* process_task: "idle", "running" (inside workflow.invoke), "ended"
    task,       \* Optional AgentState of the task in the workflow
    active,     \* the nodes scheduled in the current step of the graph
    finished,   \* <<node, returned dict>> of the nodes of this step that returned
    response,   \* Optional value returned by the last process_task
    trace,      \* the nodes of this task that have returned, in that order
    io,         \* the memory calls this task has made, by kind
    store0      \* the store when this task was submitted

memvars == <<store, now, last, reqs>>
pipevars == <<pc, task, active, finished, response, trace, io, store0>>
vars == <<store, now, last, reqs, pc, task, active, finished, response, trace, io, store0>>

(***************************************************************************)
(* Bounds of the model.                                                    *)
(***************************************************************************)
\* The clock starts at STM_RETENTION_DAYS (day 0 is then exactly on the
\* cutoff) and advances by at most MaxAdvance days.
MaxAdvance == 1
\* Longest session list passed to one STM save.
MaxSave == 2

(***************************************************************************)
(* Configuration (src/config.py).                                          *)
(***************************************************************************)
STM_RETENTION_DAYS == 7

(***************************************************************************)
(* Generic helpers.                                                        *)
(***************************************************************************)
Range(f) == {f[i] : i \in DOMAIN f}

SeqsUpTo(S, n) == UNION {[1..k -> S] : k \in 0..n}

None == <<>>
Some(x) == <<x>>

\* dict.get(k, default)
Get(d, k, default) == IF k \in DOMAIN d THEN d[k] ELSE default

\* dict.update(e), as a new dict
Update(d, e) ==
    [k \in (DOMAIN d) \cup (DOMAIN e) |-> IF k \in DOMAIN e THEN e[k] ELSE d[k]]

EmptyDict == [k \in {} |-> 0]

(***************************************************************************)
(* Sessions.                                                               *)
(***************************************************************************)
NaiveDate(d) == [kind |-> "naive", day |-> d]
\* A value with a UTC offset ("...Z"): parses to an offset-aware datetime.
AwareDate == [kind |-> "aware", day |-> 0]
\* session_date missing, empty or unparseable.
NoDate == [kind |-> "none", day |-> 0]

MkSession(id, date, bed, wake, dur, eff, intr, mood) ==
    [session_id |-> id, session_date |-> date, bedtime |-> bed, waketime |-> wake,
     duration_hours |-> dur, efficiency_score |-> eff, interruptions |-> intr,
     morning_mood |-> mood]

(***************************************************************************)
(* The document store (src/memory/storage.py).  A failed operation is an   *)
(* exception inside the method, which the method swallows.                 *)
(***************************************************************************)
EmptyStore(users) == [u \in users |-> [stm |-> None, ltm |-> None]]

\* MongoMemoryStorage.get_memory: the document's data, or None when there
\* is no document or the read raised.
get_memory(st, u, kind, readOk) ==
    IF readOk /\ u \in DOMAIN st THEN st[u][kind] ELSE None

\* Mutant of save_memory: the update is not filtered by user_id, so the
\* document of that kind is replaced for every user.
save_memory_any_user(st, u, kind, data, writeOk) ==
    IF writeOk
    THEN [v \in DOMAIN st \cup {u} |->
             IF v \in DOMAIN st THEN [st[v] EXCEPT ![kind] = Some(data)]
             ELSE [[stm |-> None, ltm |-> None] EXCEPT ![kind] = Some(data)]]
    ELSE st

\* MongoMemoryStorage.save_memory: upsert by (user_id, memory_type); the
\* store is unchanged when the write raised.
save_memory(st, u, kind, data, writeOk) ==
    LET docs == IF u \in DOMAIN st THEN st[u] ELSE [stm |-> None, ltm |-> None]
    IN  IF writeOk
        THEN [v \in DOMAIN st \cup {u} |->
                 IF v = u THEN [docs EXCEPT ![kind] = Some(data)] ELSE st[v]]
        ELSE st

(***************************************************************************)
(* Short-term memory (src/memory/stm.py).                                  *)
(***************************************************************************)
\* ShortTermMemory._generate_session_id: f"{session_date}_{bedtime}_{waketime}".
\* The three parts are kept apart: the values of the model hold no "_", so
\* the formatted string determines them.
generate_session_id(s) == <<"gen", s.session_date, s.bedtime, s.waketime>>

\* session.get('session_id') or self._generate_session_id(session)
SessionKey(s) ==
    IF s.session_id # "" THEN <<"id", s.session_id>> ELSE generate_session_id(s)

\* ShortTermMemory._parse_session_date: Optional datetime.
parse_session_date(s) ==
    IF s.session_date.kind = "none" THEN None ELSE Some(s.session_date)

\* ShortTermMemory.get_sessions
get_sessions(st, u, readOk) ==
    LET stm_data == get_memory(st, u, "stm", readOk)
    IN  IF stm_data # None THEN stm_data[1].sessions ELSE <<>>

\* session_map[session_id] = session on an insertion-ordered dict, kept as a
\* sequence of <<key, session>>: an existing key keeps its place.
MapPut(m, k, v) ==
    IF \E i \in DOMAIN m : m[i][1] = k
    THEN [i \in DOMAIN m |-> IF m[i][1] = k THEN <<k, v>> ELSE m[i]]
    ELSE Append(m, <<k, v>>)

RECURSIVE MapPutAll(_, _)
MapPutAll(m, sessions) ==
    IF sessions = <<>> THEN m
    ELSE MapPutAll(MapPut(m, SessionKey(Head(sessions)), Head(sessions)), Tail(sessions))

MapValues(m) == [i \in DOMAIN m |-> m[i][2]]

\* Mutants of MergeSessions: the stored value wins a collision; no map at all.
MergeSessionsStoredWins(existing, sessions) ==
    MapPutAll(MapPutAll(<<>>, sessions), existing)

MergeSessionsNoDedup(existing, sessions) ==
    [i \in 1..(Len(existing) + Len(sessions)) |->
        LET s == (existing \o sessions)[i] IN <<SessionKey(s), s>>]

\* Lines 32-40: existing sessions first, then the new ones.
MergeSessions(existing, sessions) ==
    MapPutAll(MapPutAll(<<>>, existing), sessions)

\* session_date >= cutoff_date raises TypeError for an offset-aware
\* session_date (cutoff_date is naive).
CompareRaises(merged) ==
    \E i \in DOMAIN merged : merged[i].session_date.kind = "aware"

\* Mutant of InRetention: the date is parsed and never compared.
InRetentionAnyDate(s, cutoff) ==
    parse_session_date(s) # None

\* Lines 46-49: session_date and session_date >= cutoff_date
InRetention(s, cutoff) ==
    /\ parse_session_date(s) # None
    /\ parse_session_date(s)[1].day >= cutoff

\* Mutant of RetentionFilter: a session dated on the cutoff itself is dropped.
RetentionFilterAfterCutoff(merged, cutoff) ==
    SelectSeq(merged, LAMBDA s : InRetention(s, cutoff + 1))

RetentionFilter(merged, cutoff) ==
    SelectSeq(merged, LAMBDA s : InRetention(s, cutoff))

\* Lines 51-55: a stable sort, newest first (list.sort keeps the order of
\* equal keys, also with reverse=True).
RECURSIVE InsertDesc(_, _)
InsertDesc(sorted, s) ==
    IF sorted = <<>> THEN <<s>>
    ELSE IF Head(sorted).session_date.day >= s.session_date.day
         THEN <<Head(sorted)>> \o InsertDesc(Tail(sorted), s)
         ELSE <<s>> \o sorted

\* Mutant of SortNewestFirst: the sessions stay in the order of the dict.
SortKeepsMapOrder(seq) == seq

RECURSIVE SortNewestFirst(_)
SortNewestFirst(seq) ==
    IF seq = <<>> THEN <<>>
    ELSE InsertDesc(SortNewestFirst(SubSeq(seq, 1, Len(seq) - 1)), seq[Len(seq)])

\* Mutant of save_sessions_after_read: the write merges with the record as it
\* is stored when the write happens (a read and a write that are one step).
save_sessions_rereading(st, t, u, existing, sessions, writeOk) ==
    LET merged   == MapValues(MergeSessions(get_sessions(st, u, TRUE), sessions))
        cutoff   == t - STM_RETENTION_DAYS
        filtered == SortNewestFirst(RetentionFilter(merged, cutoff))
        stm_data == [sessions |-> filtered, last_updated |-> t, count |-> Len(filtered)]
    IN  IF CompareRaises(merged)
        THEN [ok |-> FALSE, store |-> st]
        ELSE [ok |-> writeOk, store |-> save_memory(st, u, "stm", stm_data, writeOk)]

\* ShortTermMemory.save_sessions after its read (lines 32-63): merge what was
\* read with the passed sessions, filter, sort and write: [ok, store].
save_sessions_after_read(st, t, u, existing, sessions, writeOk) ==
    LET merged   == MapValues(MergeSessions(existing, sessions))
        cutoff   == t - STM_RETENTION_DAYS
        filtered == SortNewestFirst(RetentionFilter(merged, cutoff))
        stm_data == [sessions |-> filtered, last_updated |-> t, count |-> Len(filtered)]
    IN  IF CompareRaises(merged)
        THEN [ok |-> FALSE, store |-> st]
        ELSE [ok |-> writeOk, store |-> save_memory(st, u, "stm", stm_data, writeOk)]

\* ShortTermMemory.save_sessions: [ok, store].
save_sessions(st, t, u, sessions, readOk, writeOk) ==
    save_sessions_after_read(st, t, u, get_sessions(st, u, readOk), sessions, writeOk)

(***************************************************************************)
(* The STM under arbitrary save calls and a running clock.                 *)
(***************************************************************************)
StmUsers == {"u1"}
StmDurations == {60, 80}
\* Day 0 is on the cutoff when the clock starts and expired one day later.
StmDays == {0, 1}
\* Sessions without an id on every day, sessions with the explicit id "a",
\* one session without a usable date and one with an offset-aware date.
StmSessions ==
    {MkSession("", NaiveDate(d), "22:00", "06:00", dur, 0, 0, 0) :
        d \in StmDays, dur \in StmDurations}
    \cup {MkSession("a", NaiveDate(1), "23:00", "07:00", dur, 0, 0, 0) :
            dur \in StmDurations}
    \cup {MkSession("", NoDate, "22:00", "06:00", 60, 0, 0, 0),
          MkSession("", AwareDate, "22:00", "06:00", 60, 0, 0, 0)}

\* The requests that can be in flight at once: two threads of the server.
Requests == {"r1", "r2"}

\* A request outside save_sessions.
IdleRequest == [pc |-> "idle"]

NoRequests == [r \in Requests |-> IdleRequest]

NoCall == [op |-> "none", user |-> "", ok |-> FALSE, swept |-> FALSE, probe |-> None]

\* The memory calls a task has made, by kind, before it has made any.
NoIo ==
    [get_sessions |-> 0, get_memory |-> 0, save_sessions |-> 0, update_trends |-> 0,
     update_recommendations |-> 0, failed_writes |-> 0]

\* No task has been submitted.
NoTaskYet ==
    /\ pc = "idle"
    /\ task = None
    /\ active = {}
    /\ finished = <<>>
    /\ response = None
    /\ trace = <<>>
    /\ io = NoIo
    /\ store0 = None

StmInit ==
    /\ store = EmptyStore(StmUsers)
    /\ now = STM_RETENTION_DAYS
    /\ last = NoCall
    /\ reqs = NoRequests
    /\ NoTaskYet

\* The stored sessions (what a healthy read returns).
Stored(u) == get_sessions(store, u, TRUE)

\* The passed sessions a save can be observed for: those that are the last
\* one passed for their key and whose key is already stored with other field
\* values (the second save of a session).
Resaved(u, sessions) ==
    {i \in DOMAIN sessions :
        /\ \A j \in DOMAIN sessions :
              j > i => SessionKey(sessions[j]) # SessionKey(sessions[i])
        /\ \E e \in Range(Stored(u)) :
              SessionKey(e) = SessionKey(sessions[i]) /\ e # sessions[i]}

\* One call of stm.save_sessions(u, sessions) (POST /api/sessions, or
\* memory_write).  `probe` is 0 or the index of the passed session the call
\* is observed for.
StmSave(u, sessions, probe, readOk, writeOk) ==
    LET r == save_sessions(store, now, u, sessions, readOk, writeOk)
    IN  /\ store' = r.store
        /\ last' = [op |-> "save", user |-> u, ok |-> r.ok,
                    swept |-> /\ readOk /\ sessions = <<>>
                              /\ \E e \in Range(Stored(u)) :
                                    e.session_date.day < now - STM_RETENTION_DAYS,
                    probe |-> IF probe = 0 THEN None ELSE Some(sessions[probe])]
        /\ UNCHANGED <<now, reqs, pipevars>>

\* Time passes.
Tick ==
    /\ now < STM_RETENTION_DAYS + MaxAdvance
    /\ now' = now + 1
    /\ last' = NoCall
    /\ UNCHANGED <<store, reqs, pipevars>>

StmSaveAny ==
    \E u \in StmUsers, sessions \in SeqsUpTo(StmSessions, MaxSave),
       readOk \in BOOLEAN, writeOk \in BOOLEAN :
        \E probe \in Resaved(u, sessions) \cup {0} :
            StmSave(u, sessions, probe, readOk, writeOk)

StmNext == StmSaveAny \/ Tick

SpecStm == StmInit /\ [][StmNext]_vars

(***************************************************************************)
(* Properties of the STM.                                                  *)
(***************************************************************************)
\* The session a successful save is observed for, when its date is inside
\* the retention window at the time of the save.
ResavedInWindow ==
    /\ last.op = "save" /\ last.ok /\ last.probe # None
    /\ last.probe[1].session_date.kind = "naive"
    /\ last.probe[1].session_date.day >= now - STM_RETENTION_DAYS

\* C1: when a session is saved whose identity key (explicit session_id, else
\* session_date + bedtime + waketime) is already stored from an earlier save,
\* and its date is inside the retention window, then after the save exactly
\* one stored entry has that key, and it has the field values of the second
\* save.
C1_ResaveKeepsOneEntryWithNewValues ==
    ResavedInWindow =>
        LET ss == Stored(last.user)
            hits == {i \in DOMAIN ss : SessionKey(ss[i]) = SessionKey(last.probe[1])}
        IN  /\ Cardinality(hits) = 1
            /\ \A i \in hits : ss[i] = last.probe[1]

C1_Witness ==
    /\ ResavedInWindow
    /\ last.probe[1].session_id = ""
    /\ Len(Stored(last.user)) >= 2

\* C2: no two sessions of a stored STM record share an identity key.
C2_StoredKeysDistinct ==
    \A u \in DOMAIN store :
        LET ss == Stored(u)
        IN  \A i, j \in DOMAIN ss : SessionKey(ss[i]) = SessionKey(ss[j]) => i = j

C2_Witness ==
    /\ last.op = "save" /\ last.ok /\ last.probe # None
    /\ Len(Stored(last.user)) >= 3

\* C3: immediately after a successful save, also one that passes no session,
\* no stored session is dated earlier than now - retention_days.
C3_NoExpiredSessionAfterSave ==
    (last.op = "save" /\ last.ok) =>
        \A s \in Range(Stored(last.user)) :
            /\ s.session_date.kind = "naive"
            /\ ~(s.session_date.day < now - STM_RETENTION_DAYS)

\* A sweep: save(user, []) on a record that held an expired session.
C3_Witness ==
    /\ last.op = "save" /\ last.ok /\ last.swept
    /\ Stored(last.user) # <<>>

(***************************************************************************)
(* Numbers.  A Python float is the reduced fraction <<numerator,           *)
(* denominator>> with a positive denominator; float('nan') is <<0, 0>>.    *)
(* A number held in a session is an integer in the field's unit (tenths of *)
(* an hour for duration_hours), or the value NaN.                          *)
(***************************************************************************)
\* float('nan') as the value of a session field: it passes float() and every
\* range check of the validators, and it is truthy.
NaN == -1

RECURSIVE GCD(_, _)
GCD(a, b) == IF b = 0 THEN a ELSE GCD(b, a % b)

Abs(n) == IF n < 0 THEN -n ELSE n

Q(n, d) == LET g == GCD(Abs(n), d) IN <<n \div g, d \div g>>

NaNQ == <<0, 0>>
IsNaN(q) == q[2] = 0

\* The value of a session number, given how many units make 1.
ToQ(x, unit) == IF x = NaN THEN NaNQ ELSE Q(x, unit)

QAdd(a, b) == IF IsNaN(a) \/ IsNaN(b) THEN NaNQ ELSE Q(a[1] * b[2] + b[1] * a[2], a[2] * b[2])
QSub(a, b) == IF IsNaN(a) \/ IsNaN(b) THEN NaNQ ELSE Q(a[1] * b[2] - b[1] * a[2], a[2] * b[2])
QMul(a, b) == IF IsNaN(a) \/ IsNaN(b) THEN NaNQ ELSE Q(a[1] * b[1], a[2] * b[2])
\* a / b for b > 0 (the source divides by lengths and positive constants)
QDiv(a, b) == IF IsNaN(a) \/ IsNaN(b) THEN NaNQ ELSE Q(a[1] * b[2], a[2] * b[1])

\* Comparisons: every comparison with nan is False.
QLt(a, b) == ~IsNaN(a) /\ ~IsNaN(b) /\ a[1] * b[2] < b[1] * a[2]
QLe(a, b) == ~IsNaN(a) /\ ~IsNaN(b) /\ a[1] * b[2] <= b[1] * a[2]

\* max(a, b) and min(a, b) of Python: the first argument unless the second
\* compares greater (smaller).
QMax2(a, b) == IF QLt(a, b) THEN b ELSE a
QMin2(a, b) == IF QLt(b, a) THEN b ELSE a

RECURSIVE QSum(_)
QSum(s) == IF s = <<>> THEN Q(0, 1) ELSE QAdd(Head(s), QSum(Tail(s)))

\* min(list) and max(list) of Python, left to right.
RECURSIVE QMinFrom(_, _)
QMinFrom(m, s) == IF s = <<>> THEN m ELSE QMinFrom(QMin2(m, Head(s)), Tail(s))
QMin(s) == QMinFrom(Head(s), Tail(s))

RECURSIVE QMaxFrom(_, _)
QMaxFrom(m, s) == IF s = <<>> THEN m ELSE QMaxFrom(QMax2(m, Head(s)), Tail(s))
QMax(s) == QMaxFrom(Head(s), Tail(s))

\* sum(list) / len(list)
QAvg(s) == QDiv(QSum(s), Q(Len(s), 1))

\* The nearest integer to n / d, the even one on a tie.
RoundHalfEven(n, d) ==
    LET q == n \div d
        r == n % d
    IN  IF 2 * r < d THEN q
        ELSE IF 2 * r > d THEN q + 1
        ELSE IF q % 2 = 0 THEN q ELSE q + 1

Pow10(k) == IF k = 0 THEN 1 ELSE IF k = 1 THEN 10 ELSE 100

\* round(x, k) for k in 0..2: a float again, nan for nan.
QRound(a, k) ==
    IF IsNaN(a) THEN NaNQ ELSE Q(RoundHalfEven(a[1] * Pow10(k), a[2]), Pow10(k))

\* [s.get(f) for s in sessions if s.get(f)], for a numeric field f
Truthy(sessions, f, unit) ==
    LET kept == SelectSeq(sessions, LAMBDA s : s[f] # 0)
    IN  [i \in DOMAIN kept |-> ToQ(kept[i][f], unit)]

\* [s.get(f) for s in sessions if s.get(f)], for a string field f
TruthyStr(sessions, f) ==
    LET kept == SelectSeq(sessions, LAMBDA s : s[f] # "")
    IN  [i \in DOMAIN kept |-> kept[i][f]]

Durations(sessions) == Truthy(sessions, "duration_hours", 10)
EfficiencyScores(sessions) == Truthy(sessions, "efficiency_score", 1)

(***************************************************************************)
(* Long-term memory (src/memory/ltm.py).                                   *)
(***************************************************************************)
\* LongTermMemory.get_memory(user_id) or {}
ltm_or_empty(st, u, readOk) ==
    LET doc == get_memory(st, u, "ltm", readOk)
    IN  IF doc # None THEN doc[1] ELSE EmptyDict

\* LongTermMemory._calculate_trends
calculate_trends(sessions) ==
    LET durations == Durations(sessions)
        efficiency_scores == EfficiencyScores(sessions)
        morning_moods == Truthy(sessions, "morning_mood", 1)
        recent_7 == SubSeq(sessions, 1, 7)
        durations_7 == Durations(recent_7)
        t1 == IF durations # <<>>
              THEN [avg_duration |-> QAvg(durations),
                    min_duration |-> QMin(durations),
                    max_duration |-> QMax(durations),
                    duration_consistency |->
                        IF QLt(Q(0, 1), QMax(durations))
                        THEN QSub(Q(1, 1), QDiv(QSub(QMax(durations), QMin(durations)),
                                                QMax(durations)))
                        ELSE Q(0, 1)]
              ELSE EmptyDict
        t2 == IF efficiency_scores # <<>>
              THEN [avg_efficiency |-> QAvg(efficiency_scores),
                    min_efficiency |-> QMin(efficiency_scores),
                    max_efficiency |-> QMax(efficiency_scores)]
              ELSE EmptyDict
        t3 == IF morning_moods # <<>>
              THEN [avg_morning_mood |-> QAvg(morning_moods)]
              ELSE EmptyDict
        t4 == IF Len(sessions) >= 7 /\ durations_7 # <<>>
              THEN [weekly_avg_duration |-> QAvg(durations_7)]
              ELSE EmptyDict
    IN  IF sessions = <<>> THEN EmptyDict
        ELSE Update(Update(Update(t1, t2), t3), t4)

\* LongTermMemory._identify_patterns (confidence in hundredths)
identify_patterns(sessions) ==
    LET bedtimes == TruthyStr(sessions, "bedtime")
        p1 == IF bedtimes # <<>> /\ Cardinality(Range(bedtimes)) <= 2
              THEN <<[type |-> "consistent_bedtime",
                      description |-> "Maintains consistent bedtime",
                      confidence |-> 80]>>
              ELSE <<>>
        p2 == IF Len(sessions) >= 7
              THEN <<[type |-> "sufficient_data",
                      description |-> "Has sufficient data for pattern analysis",
                      confidence |-> 70]>>
              ELSE <<>>
    IN  IF Len(sessions) < 3 THEN <<>> ELSE p1 \o p2

\* Counter(values).most_common(1)[0][0]: the most frequent value, the
\* first-encountered one among equals.
MostCommon(values) ==
    LET count(x) == Cardinality({i \in DOMAIN values : values[i] = x})
        first(x) == CHOOSE i \in DOMAIN values :
                        values[i] = x /\ \A j \in DOMAIN values : values[j] = x => i <= j
    IN  CHOOSE x \in Range(values) :
            \A y \in Range(values) :
                \/ count(x) > count(y)
                \/ count(x) = count(y) /\ first(x) <= first(y)

\* Mutant of extract_preferences: the preferences are rebuilt from scratch.
extract_preferences_replacing(sessions, existing) ==
    LET durations == Durations(sessions)
        bedtimes == TruthyStr(sessions, "bedtime")
        p1 == IF durations # <<>>
              THEN [preferred_duration |-> QRound(QAvg(durations), 1)]
              ELSE EmptyDict
        p2 == IF bedtimes # <<>>
              THEN [preferred_bedtime |-> MostCommon(bedtimes)]
              ELSE EmptyDict
    IN  Update(p1, p2)

\* LongTermMemory._extract_preferences
extract_preferences(sessions, existing) ==
    LET durations == Durations(sessions)
        bedtimes == TruthyStr(sessions, "bedtime")
        p1 == IF durations # <<>>
              THEN [preferred_duration |-> QRound(QAvg(durations), 1)]
              ELSE EmptyDict
        p2 == IF bedtimes # <<>>
              THEN [preferred_bedtime |-> MostCommon(bedtimes)]
              ELSE EmptyDict
    IN  Update(Update(existing, p1), p2)

\* Mutant of merge_trends: the stored trends are replaced by the computed
\* ones.
merge_trends_replacing(existing_trends, trends) == trends

\* existing_trends = existing_ltm.get('trends', {}).copy();
\* existing_trends.update(trends)
merge_trends(existing_trends, trends) == Update(existing_trends, trends)

\* Mutant of trends_document: the document is rebuilt, not merged.
trends_document_replacing(existing_ltm, sessions, t) ==
    [trends |-> merge_trends(Get(existing_ltm, "trends", EmptyDict), calculate_trends(sessions)),
     patterns |-> identify_patterns(sessions),
     preferences |-> extract_preferences(sessions, Get(existing_ltm, "preferences", EmptyDict)),
     last_updated |-> t,
     total_sessions_analyzed |->
        Get(existing_ltm, "total_sessions_analyzed", 0) + Len(sessions)]

\* LongTermMemory.update_trends, lines 30-55: the document that is written.
trends_document(existing_ltm, sessions, t) ==
    Update(existing_ltm,
        [trends |-> merge_trends(Get(existing_ltm, "trends", EmptyDict), calculate_trends(sessions)),
         patterns |-> identify_patterns(sessions),
         preferences |-> extract_preferences(sessions, Get(existing_ltm, "preferences", EmptyDict)),
         last_updated |-> t,
         total_sessions_analyzed |->
            Get(existing_ltm, "total_sessions_analyzed", 0) + Len(sessions)])

\* LongTermMemory.update_trends: [ok, store].
update_trends(st, t, u, sessions, readOk, writeOk) ==
    LET existing_ltm == ltm_or_empty(st, u, readOk)
    IN  [ok |-> writeOk,
         store |-> save_memory(st, u, "ltm", trends_document(existing_ltm, sessions, t), writeOk)]

\* Mutant of recommendations_document: the issues argument is not stored.
recommendations_document_without_issues(existing_ltm, recommendations, sleep_score, confidence, personalized_tips, issues, t) ==
    LET d1 == Update(existing_ltm,
                [recommendations |-> recommendations,
                 sleep_score |-> sleep_score,
                 confidence |-> confidence,
                 personalized_tips |-> personalized_tips])
        d3 == Update(d1, [last_updated |-> t])
        trends == Update(Get(d3, "trends", EmptyDict),
                         [avg_sleep_score |-> sleep_score, confidence |-> confidence])
    IN  Update(d3, [trends |-> trends])

\* LongTermMemory.update_recommendations, lines 80-96: the document that is
\* written (issues is an Optional list).
recommendations_document(existing_ltm, recommendations, sleep_score, confidence, personalized_tips, issues, t) ==
    LET d1 == Update(existing_ltm,
                [recommendations |-> recommendations,
                 sleep_score |-> sleep_score,
                 confidence |-> confidence,
                 personalized_tips |-> personalized_tips])
        d2 == IF issues # None THEN Update(d1, [issues |-> issues[1]]) ELSE d1
        d3 == Update(d2, [last_updated |-> t])
        trends == Update(Get(d3, "trends", EmptyDict),
                         [avg_sleep_score |-> sleep_score, confidence |-> confidence])
    IN  Update(d3, [trends |-> trends])

\* LongTermMemory.update_recommendations: [ok, store].
update_recommendations(st, t, u, recommendations, sleep_score, confidence, personalized_tips, issues, readOk, writeOk) ==
    LET existing_ltm == ltm_or_empty(st, u, readOk)
    IN  [ok |-> writeOk,
         store |-> save_memory(st, u, "ltm",
                      recommendations_document(existing_ltm, recommendations, sleep_score,
                          confidence, personalized_tips, issues, t),
                      writeOk)]

\* POST /api/profile (src/routes/profile.py, save_profile), lines 111-121.
save_profile(st, t, u, profile, readOk, writeOk) ==
    LET ltm_data == ltm_or_empty(st, u, readOk)
        preferences == Update(Get(ltm_data, "preferences", EmptyDict), [profile |-> profile])
        doc == Update(ltm_data, [preferences |-> preferences, last_updated |-> t])
    IN  [ok |-> writeOk, store |-> save_memory(st, u, "ltm", doc, writeOk)]

(***************************************************************************)
(* Long-term memory on its own: update_trends, update_recommendations and  *)
(* save_profile called one after another for a user.  The store's reads    *)
(* succeed; a write may fail.  The ghost `last` records the call just made *)
(* and the top-level keys the stored document had before it.               *)
(***************************************************************************)
MaxLtmList == 3
MaxTotal == 4

LtmUsers == {"u1"}

LtmSessions ==
    {MkSession("", NaiveDate(STM_RETENTION_DAYS), "22:00", "06:00", 80, 0, 0, 0),
     MkSession("", NaiveDate(STM_RETENTION_DAYS), "23:00", "06:00", 70, 90, 1, 7),
     MkSession("", NaiveDate(STM_RETENTION_DAYS), "", "", 0, 0, 0, 0)}

LtmProfiles == {[age |-> 30], [age |-> 60]}

\* Arguments of update_recommendations: confidence in hundredths.
LtmRecArgs ==
    {[recommendations |-> EmptyDict, sleep_score |-> 0, confidence |-> 0,
      personalized_tips |-> <<>>, issues |-> Some(<<>>)],
     [recommendations |-> [bedtime |-> "22:30"], sleep_score |-> 85, confidence |-> 60,
      personalized_tips |-> <<"tip">>, issues |-> Some(<<"insufficient_duration">>)],
     [recommendations |-> [bedtime |-> "23:00"], sleep_score |-> 40, confidence |-> 30,
      personalized_tips |-> <<>>, issues |-> None]}

Ltm(u) == ltm_or_empty(store, u, TRUE)

LtmInit ==
    /\ store = EmptyStore(LtmUsers)
    /\ now = STM_RETENTION_DAYS
    /\ last = NoCall
    /\ reqs = NoRequests
    /\ NoTaskYet

LtmUpdateTrends(u, sessions, readOk, writeOk) ==
    LET r == update_trends(store, now, u, sessions, readOk, writeOk)
        before == Get(Ltm(u), "preferences", EmptyDict)
        after == Get(ltm_or_empty(r.store, u, TRUE), "preferences", EmptyDict)
    IN  /\ Get(Ltm(u), "total_sessions_analyzed", 0) + Len(sessions) <= MaxTotal
        /\ store' = r.store
        /\ last' = [op |-> "update_trends", user |-> u, ok |-> r.ok,
                    pre |-> DOMAIN Ltm(u),
                    recomputed |->
                        \E k \in {"preferred_duration", "preferred_bedtime"} :
                            /\ k \in DOMAIN before /\ k \in DOMAIN after
                            /\ after[k] # before[k]]
        /\ UNCHANGED <<now, reqs, pipevars>>

LtmUpdateRecommendations(u, a, readOk, writeOk) ==
    LET r == update_recommendations(store, now, u, a.recommendations, a.sleep_score,
                 a.confidence, a.personalized_tips, a.issues, readOk, writeOk)
    IN  /\ store' = r.store
        /\ last' = [op |-> "update_recommendations", user |-> u, ok |-> r.ok,
                    pre |-> DOMAIN Ltm(u)]
        /\ UNCHANGED <<now, reqs, pipevars>>

LtmSaveProfile(u, profile, readOk, writeOk) ==
    LET r == save_profile(store, now, u, profile, readOk, writeOk)
    IN  /\ store' = r.store
        /\ last' = [op |-> "save_profile", user |-> u, ok |-> r.ok,
                    pre |-> DOMAIN Ltm(u)]
        /\ UNCHANGED <<now, reqs, pipevars>>

LtmUpdateTrendsAny ==
    \E u \in LtmUsers, sessions \in SeqsUpTo(LtmSessions, MaxLtmList), writeOk \in BOOLEAN :
        LtmUpdateTrends(u, sessions, TRUE, writeOk)

LtmUpdateRecommendationsAny ==
    \E u \in LtmUsers, a \in LtmRecArgs, writeOk \in BOOLEAN :
        LtmUpdateRecommendations(u, a, TRUE, writeOk)

LtmSaveProfileAny ==
    \E u \in LtmUsers, profile \in LtmProfiles, writeOk \in BOOLEAN :
        LtmSaveProfile(u, profile, TRUE, writeOk)

LtmNext == LtmUpdateTrendsAny \/ LtmUpdateRecommendationsAny \/ LtmSaveProfileAny

SpecLtm == LtmInit /\ [][LtmNext]_vars

\* A key of a dict is unchanged from d to e: absent in both, or present in
\* both with the same value.
SameAt(d, e, k) ==
    /\ (k \in DOMAIN d) <=> (k \in DOMAIN e)
    /\ k \in DOMAIN d => e[k] = d[k]

PreferencesOf(st, u) == Get(ltm_or_empty(st, u, TRUE), "preferences", EmptyDict)
TrendsOf(st, u) == Get(ltm_or_empty(st, u, TRUE), "trends", EmptyDict)

OPTIMAL_SLEEP_DURATION_MIN == 7
OPTIMAL_SLEEP_DURATION_MAX == 9
\* 0.5 h and 16.0 h, in tenths of an hour
MIN_SLEEP_DURATION == 5
MAX_SLEEP_DURATION == 160
MAX_SLEEP_SESSIONS_PER_TASK == 1000
CAFFEINE_CUTOFF_HOURS == 8
SCREEN_TIME_WARNING_HOURS == 2

OptMin == Q(OPTIMAL_SLEEP_DURATION_MIN, 1)
OptMax == Q(OPTIMAL_SLEEP_DURATION_MAX, 1)

\* A JSON string where the code expects a number (a profile's "age": "30"):
\* ordering it against a number raises TypeError.
Text == -2

\* Python truthiness of a float: nan is truthy, 0.0 is not.
QTruthy(q) == IsNaN(q) \/ q[1] # 0

\* A message with the number formatted into it (<<>> when there is none).
Msg(text, value) == [text |-> text, value |-> value]
Plain(text) == Msg(text, <<>>)

\* sum(1 for x in values if P(x))
CountIf(values, P(_)) == Cardinality({i \in DOMAIN values : P(values[i])})

(***************************************************************************)
(* Analyzer (src/services/analyzer.py).                                    *)
(***************************************************************************)
\* SleepAnalyzer._analyze_duration
analyze_duration(sessions) ==
    LET durations == Durations(sessions)
        avg_duration == QAvg(durations)
    IN  IF durations = <<>> THEN EmptyDict
        ELSE [average |-> QRound(avg_duration, 2),
              minimum |-> QRound(QMin(durations), 2),
              maximum |-> QRound(QMax(durations), 2),
              optimal_count |-> CountIf(durations, LAMBDA d : QLe(OptMin, d) /\ QLe(d, OptMax)),
              too_short_count |-> CountIf(durations, LAMBDA d : QLt(d, OptMin)),
              too_long_count |-> CountIf(durations, LAMBDA d : QLt(OptMax, d)),
              total_sessions |-> Len(durations),
              is_optimal |-> QLe(OptMin, avg_duration) /\ QLe(avg_duration, OptMax)]

\* Mutant of Consistency: 1.0 - unique / len(values).
ConsistencyOffByOne(values) ==
    QMax2(Q(0, 1), QSub(Q(1, 1), Q(Cardinality(Range(values)), Len(values))))

\* 1.0 - (unique - 1) / len(values) if len(values) > 1 else 1.0, then max(0.0, .)
Consistency(values) ==
    LET unique == Cardinality(Range(values))
        c == IF Len(values) > 1
             THEN QSub(Q(1, 1), Q(unique - 1, Len(values)))
             ELSE Q(1, 1)
    IN  QMax2(Q(0, 1), c)

\* SleepAnalyzer._analyze_consistency
analyze_consistency(sessions) ==
    LET bedtimes == TruthyStr(sessions, "bedtime")
        waketimes == TruthyStr(sessions, "waketime")
        bedtime_consistency == IF bedtimes # <<>> THEN Consistency(bedtimes) ELSE Q(0, 1)
        waketime_consistency == IF waketimes # <<>> THEN Consistency(waketimes) ELSE Q(0, 1)
    IN  [bedtime_consistency |-> QRound(bedtime_consistency, 2),
         waketime_consistency |-> QRound(waketime_consistency, 2),
         overall_consistency |->
            IF bedtimes # <<>> /\ waketimes # <<>>
            THEN QRound(QDiv(QAdd(bedtime_consistency, waketime_consistency), Q(2, 1)), 2)
            ELSE Q(0, 1),
         unique_bedtimes |-> Cardinality(Range(bedtimes)),
         unique_waketimes |-> Cardinality(Range(waketimes))]

\* SleepAnalyzer._analyze_efficiency
analyze_efficiency(sessions) ==
    LET efficiency_scores == EfficiencyScores(sessions)
        avg_efficiency == QAvg(efficiency_scores)
    IN  IF efficiency_scores = <<>> THEN EmptyDict
        ELSE [average |-> QRound(avg_efficiency, 2),
              minimum |-> QRound(QMin(efficiency_scores), 2),
              maximum |-> QRound(QMax(efficiency_scores), 2),
              excellent_count |-> CountIf(efficiency_scores, LAMBDA e : QLe(Q(85, 1), e)),
              good_count |-> CountIf(efficiency_scores,
                                LAMBDA e : QLe(Q(70, 1), e) /\ QLt(e, Q(85, 1))),
              fair_count |-> CountIf(efficiency_scores,
                                LAMBDA e : QLe(Q(50, 1), e) /\ QLt(e, Q(70, 1))),
              poor_count |-> CountIf(efficiency_scores, LAMBDA e : QLt(e, Q(50, 1))),
              is_efficient |-> QLe(Q(70, 1), avg_efficiency)]

RECURSIVE SumField(_, _)
SumField(sessions, f) ==
    IF sessions = <<>> THEN 0 ELSE Head(sessions)[f] + SumField(Tail(sessions), f)

\* SleepAnalyzer._analyze_interruptions (a session holds the length of its
\* interruptions list)
analyze_interruptions(sessions) ==
    LET total_interruptions == SumField(sessions, "interruptions")
        sessions_with_interruptions ==
            Cardinality({i \in DOMAIN sessions : sessions[i].interruptions > 0})
    IN  [total_interruptions |-> total_interruptions,
         sessions_with_interruptions |-> sessions_with_interruptions,
         average_per_session |-> QRound(Q(total_interruptions, Len(sessions)), 2),
         interruption_rate |-> QRound(Q(sessions_with_interruptions, Len(sessions)), 2)]

\* SleepAnalyzer._analyze_caffeine_timing
analyze_caffeine_timing(sessions, profile) ==
    LET caffeine_intake == Get(profile, "caffeine_intake", "none")
        caffeine_after_8pm == Get(profile, "caffeine_after_8pm", FALSE)
        efficiency_scores == EfficiencyScores(sessions)
        avg_efficiency == QAvg(efficiency_scores)
    IN  IF profile = EmptyDict THEN EmptyDict
        ELSE IF /\ caffeine_after_8pm \/ caffeine_intake \in {"medium", "high"}
                /\ efficiency_scores # <<>>
        THEN [caffeine_intake |-> caffeine_intake,
              caffeine_after_8pm |-> caffeine_after_8pm,
              avg_sleep_efficiency |-> QRound(avg_efficiency, 2),
              potential_impact |-> QLt(avg_efficiency, Q(75, 1))]
        ELSE [caffeine_intake |-> caffeine_intake,
              caffeine_after_8pm |-> caffeine_after_8pm,
              potential_impact |-> FALSE]

\* SleepAnalyzer._analyze_screen_time (screen_time a number of hours)
analyze_screen_time(sessions, profile) ==
    LET screen_time == Get(profile, "screen_time", 0)
        efficiency_scores == EfficiencyScores(sessions)
        avg_efficiency == QAvg(efficiency_scores)
    IN  IF profile = EmptyDict THEN EmptyDict
        ELSE IF screen_time > SCREEN_TIME_WARNING_HOURS /\ efficiency_scores # <<>>
        THEN [screen_time_hours |-> screen_time,
              avg_sleep_efficiency |-> QRound(avg_efficiency, 2),
              potential_impact |-> QLt(avg_efficiency, Q(75, 1)),
              recommendation |-> Msg("Reduce screen time before bed", screen_time)]
        ELSE [screen_time_hours |-> screen_time,
              potential_impact |-> FALSE]

\* SleepAnalyzer._analyze_exercise_timing
analyze_exercise_timing(sessions, profile) ==
    LET exercise == Get(profile, "exercise", "rarely")
    IN  IF profile = EmptyDict THEN EmptyDict
        ELSE [exercise_frequency |-> exercise,
              has_regular_exercise |-> exercise \in {"daily", "3-4-times"},
              recommendation |-> IF exercise = "rarely"
                                 THEN "Incorporate regular exercise"
                                 ELSE "Maintain exercise routine"]

\* SleepAnalyzer._identify_issues
identify_issues(analysis, profile) ==
    LET duration_analysis == Get(analysis, "duration_analysis", EmptyDict)
        avg == Get(duration_analysis, "average", Q(0, 1))
        consistency == Get(analysis, "consistency_analysis", EmptyDict)
        efficiency == Get(analysis, "efficiency_analysis", EmptyDict)
        interruptions == Get(analysis, "interruption_analysis", EmptyDict)
        caffeine == Get(analysis, "caffeine_analysis", EmptyDict)
        screen_time == Get(analysis, "screen_time_analysis", EmptyDict)
        i1 == IF duration_analysis = EmptyDict THEN <<>>
              ELSE IF QLt(avg, OptMin)
              THEN <<Msg("Average sleep duration is too short", QRound(avg, 1))>>
              ELSE IF QLt(OptMax, avg)
              THEN <<Msg("Average sleep duration is too long", QRound(avg, 1))>>
              ELSE <<>>
        i2 == IF QLt(Get(consistency, "overall_consistency", Q(1, 1)), Q(6, 10))
              THEN <<Plain("Sleep schedule is inconsistent")>> ELSE <<>>
        i3 == IF QLt(Get(efficiency, "average", Q(100, 1)), Q(70, 1))
              THEN <<Msg("Sleep efficiency is low", QRound(efficiency.average, 0))>>
              ELSE <<>>
        i4 == IF QLt(Q(1, 2), Get(interruptions, "interruption_rate", Q(0, 1)))
              THEN <<Plain("Frequent sleep interruptions detected")>> ELSE <<>>
        i5 == IF Get(caffeine, "potential_impact", FALSE)
              THEN <<Plain("Caffeine intake may be affecting sleep quality")>> ELSE <<>>
        i6 == IF Get(screen_time, "potential_impact", FALSE)
              THEN <<Get(screen_time, "recommendation",
                         Plain("Reduce screen time before bed."))>>
              ELSE <<>>
    IN  i1 \o i2 \o i3 \o i4 \o i5 \o i6

\* SleepAnalyzer._generate_summary: the parts of the sentence, or the default.
generate_summary(analysis) ==
    LET duration == Get(analysis, "duration_analysis", EmptyDict)
        efficiency == Get(analysis, "efficiency_analysis", EmptyDict)
        consistency == Get(analysis, "consistency_analysis", EmptyDict)
        s1 == IF "average" \in DOMAIN duration /\ QTruthy(duration.average)
              THEN <<Msg("Average sleep duration", QRound(duration.average, 1))>> ELSE <<>>
        s2 == IF "average" \in DOMAIN efficiency /\ QTruthy(efficiency.average)
              THEN <<Msg("Average efficiency", QRound(efficiency.average, 0))>> ELSE <<>>
        s3 == IF /\ "overall_consistency" \in DOMAIN consistency
                 /\ QTruthy(consistency.overall_consistency)
              THEN <<Msg("Schedule consistency",
                         QRound(QMul(consistency.overall_consistency, Q(100, 1)), 0))>>
              ELSE <<>>
        summary_parts == s1 \o s2 \o s3
    IN  IF summary_parts # <<>> THEN summary_parts
        ELSE <<Plain("Sleep analysis completed.")>>

\* SleepAnalyzer.analyze raises: a profile's screen_time is not a number.
analyze_raises(sessions, profile) ==
    sessions # <<>> /\ Get(profile, "screen_time", 0) = Text

\* SleepAnalyzer.analyze
analyze(sessions, profile) ==
    LET parts == [duration_analysis |-> analyze_duration(sessions),
                  consistency_analysis |-> analyze_consistency(sessions),
                  efficiency_analysis |-> analyze_efficiency(sessions),
                  interruption_analysis |-> analyze_interruptions(sessions),
                  caffeine_analysis |-> analyze_caffeine_timing(sessions, profile),
                  screen_time_analysis |-> analyze_screen_time(sessions, profile),
                  exercise_analysis |-> analyze_exercise_timing(sessions, profile)]
        issues == identify_issues(parts, profile)
        withIssues == Update(parts, [issues |-> issues])
    IN  IF sessions = <<>>
        THEN [duration_analysis |-> EmptyDict,
              consistency_analysis |-> EmptyDict,
              efficiency_analysis |-> EmptyDict,
              interruption_analysis |-> EmptyDict,
              issues |-> <<Plain("No sleep data available")>>,
              summary |-> <<Plain("No sleep sessions found for analysis")>>]
        ELSE Update(withIssues, [summary |-> generate_summary(withIssues)])

(***************************************************************************)
(* Scorer (src/services/scorer.py).  `analysis` is Optional: the scorer    *)
(* falls back to the sessions when it is None.                             *)
(***************************************************************************)
\* Mutant of score_duration: no max(0.0, .) above the optimal band.
score_duration_unclamped(sessions, analysis) ==
    LET avg_duration == QAvg(Durations(sessions))
    IN  IF Durations(sessions) = <<>> THEN Q(0, 1)
        ELSE IF QLe(OptMin, avg_duration) /\ QLe(avg_duration, OptMax) THEN Q(100, 1)
        ELSE IF QLt(avg_duration, OptMin) THEN QMul(QDiv(avg_duration, OptMin), Q(100, 1))
        ELSE QMul(QSub(Q(1, 1), QDiv(QSub(avg_duration, OptMax),
                                     QSub(Q(MAX_SLEEP_DURATION, 10), OptMax))), Q(100, 1))

\* SleepScorer._score_duration
score_duration(sessions, analysis) ==
    LET durations == Durations(sessions)
        avg_duration ==
            IF analysis # None /\ "duration_analysis" \in DOMAIN analysis[1]
            THEN Get(analysis[1].duration_analysis, "average", Q(0, 1))
            ELSE QAvg(durations)
        excess == QSub(avg_duration, OptMax)
        max_excess == QSub(Q(MAX_SLEEP_DURATION, 10), OptMax)
    IN  IF ~(analysis # None /\ "duration_analysis" \in DOMAIN analysis[1]) /\ durations = <<>>
        THEN Q(0, 1)
        ELSE IF QLe(OptMin, avg_duration) /\ QLe(avg_duration, OptMax) THEN Q(100, 1)
        ELSE IF QLt(avg_duration, OptMin)
        THEN QMax2(Q(0, 1), QMul(QDiv(avg_duration, OptMin), Q(100, 1)))
        ELSE QMax2(Q(0, 1), QMul(QSub(Q(1, 1), QDiv(excess, max_excess)), Q(100, 1)))

\* 1.0 - (unique - 1) / len(values) if len(values) > 1 else 1.0
RawConsistency(values) ==
    IF Len(values) > 1
    THEN QSub(Q(1, 1), Q(Cardinality(Range(values)) - 1, Len(values)))
    ELSE Q(1, 1)

\* SleepScorer._score_consistency
score_consistency(sessions, analysis) ==
    LET bedtimes == TruthyStr(sessions, "bedtime")
        waketimes == TruthyStr(sessions, "waketime")
    IN  IF analysis # None /\ "consistency_analysis" \in DOMAIN analysis[1]
        THEN QMul(Get(analysis[1].consistency_analysis, "overall_consistency", Q(0, 1)),
                  Q(100, 1))
        ELSE IF bedtimes = <<>> \/ waketimes = <<>> THEN Q(50, 1)
        ELSE QMul(QDiv(QAdd(RawConsistency(bedtimes), RawConsistency(waketimes)), Q(2, 1)),
                  Q(100, 1))

\* SleepScorer._score_efficiency
score_efficiency(sessions, analysis) ==
    LET efficiency_scores == EfficiencyScores(sessions)
    IN  IF analysis # None /\ "efficiency_analysis" \in DOMAIN analysis[1]
        THEN Get(analysis[1].efficiency_analysis, "average", Q(0, 1))
        ELSE IF efficiency_scores = <<>> THEN Q(50, 1)
        ELSE QAvg(efficiency_scores)

\* SleepScorer._score_interruptions
score_interruptions(sessions, analysis) ==
    LET avg_interruptions ==
            IF analysis # None /\ "interruption_analysis" \in DOMAIN analysis[1]
            THEN Get(analysis[1].interruption_analysis, "average_per_session", Q(0, 1))
            ELSE Q(SumField(sessions, "interruptions"), Len(sessions))
    IN  IF avg_interruptions = Q(0, 1) THEN Q(100, 1)
        ELSE IF QLe(avg_interruptions, Q(1, 1)) THEN Q(80, 1)
        ELSE IF QLe(avg_interruptions, Q(2, 1)) THEN Q(60, 1)
        ELSE IF QLe(avg_interruptions, Q(3, 1)) THEN Q(40, 1)
        ELSE QMax2(Q(0, 1), QSub(Q(100, 1), QMul(avg_interruptions, Q(20, 1))))

\* SleepScorer._calculate_confidence (sessions non-empty)
calculate_confidence(sessions, analysis) ==
    LET n == Len(sessions)
        session_count_confidence == QMin2(Q(1, 1), Q(n, 7))
        complete_sessions ==
            Cardinality({i \in DOMAIN sessions :
                /\ sessions[i].duration_hours # 0
                /\ sessions[i].bedtime # ""
                /\ sessions[i].waketime # ""})
        completeness_confidence == Q(complete_sessions, n)
        has_efficiency ==
            Q(Cardinality({i \in DOMAIN sessions : sessions[i].efficiency_score # 0}), n)
        confidence ==
            QAdd(QAdd(QMul(session_count_confidence, Q(4, 10)),
                      QMul(completeness_confidence, Q(4, 10))),
                 QMul(has_efficiency, Q(2, 10)))
    IN  IF sessions = <<>> THEN Q(0, 1)
        ELSE QMin2(Q(1, 1), QMax2(Q(0, 1), confidence))

\* The weighted average of the four component scores.
overall_score(sessions, analysis) ==
    QAdd(QAdd(QAdd(QMul(score_duration(sessions, analysis), Q(30, 100)),
                   QMul(score_consistency(sessions, analysis), Q(25, 100))),
              QMul(score_efficiency(sessions, analysis), Q(30, 100))),
         QMul(score_interruptions(sessions, analysis), Q(15, 100)))

\* SleepScorer.calculate_score raises: round() of a nan overall score.
calculate_score_raises(sessions, analysis) ==
    sessions # <<>> /\ IsNaN(overall_score(sessions, analysis))

\* Mutant of calculate_score: an empty list is scored like any other.
calculate_score_no_empty_case(sessions, analysis) ==
    LET overall == overall_score(sessions, analysis)
    IN  [sleep_score |-> RoundHalfEven(overall[1], overall[2]),
         confidence |-> QRound(calculate_confidence(sessions, analysis), 2),
         breakdown |-> [duration_score |-> QRound(score_duration(sessions, analysis), 1)]]

\* SleepScorer.calculate_score: sleep_score an integer, confidence a float.
calculate_score(sessions, analysis) ==
    LET overall == overall_score(sessions, analysis)
    IN  IF sessions = <<>>
        THEN [sleep_score |-> 0, confidence |-> Q(0, 1), breakdown |-> EmptyDict]
        ELSE [sleep_score |-> RoundHalfEven(overall[1], overall[2]),
              confidence |-> QRound(calculate_confidence(sessions, analysis), 2),
              breakdown |->
                [duration_score |-> QRound(score_duration(sessions, analysis), 1),
                 consistency_score |-> QRound(score_consistency(sessions, analysis), 1),
                 efficiency_score |-> QRound(score_efficiency(sessions, analysis), 1),
                 interruption_score |-> QRound(score_interruptions(sessions, analysis), 1)]]

(***************************************************************************)
(* Recommender (src/services/recommender.py).  Times of day are minutes    *)
(* after midnight; a number of a profile is an integer or Text.            *)
(***************************************************************************)
\* The smallest integer not below a non-negative fraction.
Ceil(q) == -((-q[1]) \div q[2])

\* SleepRecommender._calculate_ideal_sleep_window, lines 50-52: the analysis
\* average replaces the profile's avg_sleep_duration.
UsesAnalysisAverage(analysis) ==
    LET duration_analysis == Get(analysis, "duration_analysis", EmptyDict)
    IN  "average" \in DOMAIN duration_analysis /\ QTruthy(duration_analysis.average)

ideal_sleep_duration(analysis, profile) ==
    IF UsesAnalysisAverage(analysis)
    THEN analysis.duration_analysis.average
    ELSE ToQ(Get(profile, "avg_sleep_duration", 80), 10)

\* SleepRecommender._calculate_ideal_sleep_window raises: age is not a
\* number (age < 25), or timedelta(hours=.) of a string or of nan.
ideal_sleep_window_raises(analysis, profile) ==
    \/ Get(profile, "age", 30) = Text
    \/ ~UsesAnalysisAverage(analysis) /\ Get(profile, "avg_sleep_duration", 80) = Text
    \/ UsesAnalysisAverage(analysis) /\ IsNaN(analysis.duration_analysis.average)

\* SleepRecommender._calculate_ideal_sleep_window
calculate_ideal_sleep_window(analysis, profile) ==
    LET work_schedule == Get(profile, "work_schedule", "9am-5pm")
        age == Get(profile, "age", 30)
        avg_sleep_duration == ideal_sleep_duration(analysis, profile)
        wake == IF work_schedule = "9am-5pm" THEN <<6, 30>>
                ELSE IF work_schedule = "night-shift" THEN <<16, 0>>
                ELSE IF work_schedule = "flexible" THEN <<7, 0>>
                ELSE <<6, 0>>
        wake_hour == IF age < 25 THEN wake[1] + 1
                     ELSE IF age > 50 THEN wake[1] - 1
                     ELSE wake[1]
        wake_time == wake_hour * 60 + wake[2]
        bedtime == (wake_time - Ceil(QMul(avg_sleep_duration, Q(60, 1)))) % 1440
    IN  [recommended_bedtime |-> bedtime,
         recommended_waketime |-> wake_time,
         target_duration_hours |-> QRound(avg_sleep_duration, 1),
         rationale |-> <<work_schedule, age>>]

\* SleepRecommender._calculate_caffeine_cutoff (cutoff_time an hour of day)
calculate_caffeine_cutoff(profile) ==
    LET caffeine_intake == Get(profile, "caffeine_intake", "none")
        ideal_window == calculate_ideal_sleep_window(EmptyDict, profile)
        bedtime_hour == ideal_window.recommended_bedtime \div 60
        cutoff_hour == IF bedtime_hour - CAFFEINE_CUTOFF_HOURS < 0
                       THEN bedtime_hour - CAFFEINE_CUTOFF_HOURS + 24
                       ELSE bedtime_hour - CAFFEINE_CUTOFF_HOURS
    IN  IF profile = EmptyDict
        THEN [cutoff_time |-> 14,
              recommendation |-> Plain("Avoid caffeine after 2 PM for optimal sleep")]
        ELSE [cutoff_time |-> cutoff_hour,
              recommendation |->
                 IF caffeine_intake = "none" THEN Plain("Great job avoiding caffeine!")
                 ELSE IF caffeine_intake = "low" THEN Msg("Avoid caffeine after", cutoff_hour)
                 ELSE IF caffeine_intake = "medium"
                 THEN Msg("Limit caffeine intake and avoid after", cutoff_hour)
                 ELSE Msg("Reduce caffeine intake significantly", cutoff_hour),
              current_intake |-> caffeine_intake]

\* SleepRecommender._generate_light_recommendations
generate_light_recommendations(profile) ==
    LET screen_time == Get(profile, "screen_time", 0)
    IN  (IF screen_time > SCREEN_TIME_WARNING_HOURS
         THEN <<Msg("Reduce screen time before bed", screen_time),
                Plain("Dim lights 1-2 hours before bedtime")>>
         ELSE <<Plain("Maintain low light exposure before bed")>>)
        \o <<Plain("Get natural sunlight exposure in the morning"),
             Plain("Use blackout curtains or eye mask")>>

\* SleepRecommender._generate_environment_recommendations
generate_environment_recommendations(analysis) ==
    LET interruptions == Get(analysis, "interruption_analysis", EmptyDict)
    IN  (IF QLt(Q(3, 10), Get(interruptions, "interruption_rate", Q(0, 1)))
         THEN <<Plain("Keep bedroom temperature between 65-68F"),
                Plain("Use white noise machine or earplugs"),
                Plain("Ensure your mattress and pillows are comfortable"),
                Plain("Remove electronic devices from bedroom")>>
         ELSE <<Plain("Your sleep environment seems good")>>)
        \o <<Plain("Keep bedroom dark, quiet, and cool."),
             Plain("Reserve bedroom only for sleep and intimacy")>>

\* SleepRecommender._generate_wind_down_routine
generate_wind_down_routine(profile, analysis) ==
    LET stress_level == Get(profile, "stress_level", 3)
        consistency == Get(analysis, "consistency_analysis", EmptyDict)
    IN  <<Plain("Start wind-down routine 1 hour before bedtime.")>>
        \o (IF stress_level >= 4
            THEN <<Plain("Practice relaxation techniques"),
                   Plain("Try journaling to clear your mind before bed.")>>
            ELSE <<Plain("Maintain a consistent pre-sleep routine")>>)
        \o <<Plain("Take a warm bath or shower 1-2 hours before bed"),
             Plain("Avoid stimulating activities close to bedtime")>>
        \o (IF QLt(Get(consistency, "overall_consistency", Q(1, 1)), Q(7, 10))
            THEN <<Plain("Establish a fixed bedtime routine")>>
            ELSE <<>>)

\* word in issue.lower(), for the issue texts the Analyzer produces
Mentions(issue, word) ==
    \/ word = "duration" /\ issue.text \in {"Average sleep duration is too short",
                                            "Average sleep duration is too long"}
    \/ word = "consistent" /\ issue.text = "Sleep schedule is inconsistent"
    \/ word = "caffeine" /\ issue.text = "Caffeine intake may be affecting sleep quality"
    \/ word = "screen" /\ issue.text \in {"Reduce screen time before bed",
                                          "Reduce screen time before bed."}

\* SleepRecommender._generate_weekly_plan
generate_weekly_plan(analysis, profile) ==
    LET ideal_window == calculate_ideal_sleep_window(analysis, profile)
        issues == Get(analysis, "issues", <<>>)
        any(word) == \E i \in DOMAIN issues : Mentions(issues[i], word)
        tasks ==
            (IF any("duration")
             THEN <<"Gradually adjust sleep duration to reach 7-9 hours">> ELSE <<>>)
            \o (IF any("consistent")
                THEN <<"Maintain same bedtime and wake time every day">> ELSE <<>>)
            \o (IF any("caffeine")
                THEN <<"Reduce caffeine intake and observe improvements">> ELSE <<>>)
            \o (IF any("screen")
                THEN <<"Reduce screen time 2 hours before bed">> ELSE <<>>)
    IN  [week_goal |-> "Establish consistent sleep schedule",
         daily_bedtime |-> ideal_window.recommended_bedtime,
         daily_waketime |-> ideal_window.recommended_waketime,
         weekly_tasks |-> IF tasks # <<>> THEN tasks
                          ELSE <<"Maintain current sleep habits and track improvements">>]

\* tips[:6]
MAX_TIPS == 6

\* SleepRecommender._generate_personalized_tips
generate_personalized_tips(analysis, profile, trends) ==
    LET issues == Get(analysis, "issues", <<>>)
        exercise == Get(profile, "exercise", "rarely")
        avg_duration == Get(trends, "avg_duration", Q(0, 1))
        t1 == SubSeq(issues, 1, IF Len(issues) < 3 THEN Len(issues) ELSE 3)
        t2 == IF profile = EmptyDict THEN <<>>
              ELSE IF exercise = "rarely"
              THEN <<Plain("Incorporate regular exercise into your routine")>>
              ELSE IF exercise = "daily"
              THEN <<Plain("Great job with daily exercise!")>>
              ELSE <<>>
        t3 == IF trends # EmptyDict /\ QTruthy(avg_duration) /\ QLt(avg_duration, OptMin)
              THEN <<Msg("Your average sleep duration is", QRound(avg_duration, 1))>>
              ELSE <<>>
        tips == t1 \o t2 \o t3
        padded == IF Len(tips) < 3
                  THEN tips \o <<Plain("Maintain a consistent sleep schedule"),
                                 Plain("Create a relaxing bedtime routine"),
                                 Plain("Avoid large meals and alcohol close to bedtime.")>>
                  ELSE tips
    IN  SubSeq(padded, 1, IF Len(padded) < MAX_TIPS THEN Len(padded) ELSE MAX_TIPS)

\* SleepRecommender.generate_recommendations raises.  `analysis` is
\* Optional: None has no .get.
generate_recommendations_raises(analysis, profile, trends) ==
    \/ analysis = None
    \/ ideal_sleep_window_raises(analysis[1], profile)
    \/ profile # EmptyDict /\ ideal_sleep_window_raises(EmptyDict, profile)
    \/ Get(profile, "screen_time", 0) = Text
    \/ Get(profile, "stress_level", 3) = Text

\* SleepRecommender.generate_recommendations
generate_recommendations(analysis, profile, trends) ==
    [ideal_sleep_window |-> calculate_ideal_sleep_window(analysis, profile),
     caffeine_cutoff |-> calculate_caffeine_cutoff(profile),
     light_exposure_management |-> generate_light_recommendations(profile),
     bedroom_environment |-> generate_environment_recommendations(analysis),
     wind_down_routine |-> generate_wind_down_routine(profile, analysis),
     weekly_sleep_plan |-> generate_weekly_plan(analysis, profile),
     personalized_tips |-> generate_personalized_tips(analysis, profile, trends)]

(***************************************************************************)
(* Validators (src/utils/validators.py).  Each returns the Optional error  *)
(* message.  A session number is an integer or NaN; float(nan) succeeds    *)
(* and fails no range check, int(nan) raises ValueError.                   *)
(***************************************************************************)
\* The first required field missing from a session, as an Optional.
MissingField(session) ==
    IF session.bedtime = "" THEN Some("bedtime")
    ELSE IF session.waketime = "" THEN Some("waketime")
    ELSE IF session.duration_hours = 0 THEN Some("duration_hours")
    ELSE None

\* duration < MIN_SLEEP_DURATION or duration > MAX_SLEEP_DURATION
DurationOutOfRange(session) ==
    /\ session.duration_hours # NaN
    /\ \/ session.duration_hours < MIN_SLEEP_DURATION
       \/ session.duration_hours > MAX_SLEEP_DURATION

\* The first problem of the sessions of a payload, checked in list order.
RECURSIVE FirstSessionProblem(_, _)
FirstSessionProblem(sessions, i) ==
    IF i > Len(sessions) THEN None
    ELSE IF MissingField(sessions[i]) # None
    THEN Some(Msg("sleep_sessions missing required field", <<i - 1, MissingField(sessions[i])[1]>>))
    ELSE IF DurationOutOfRange(sessions[i])
    THEN Some(Msg("sleep_sessions has invalid duration", <<i - 1, sessions[i].duration_hours>>))
    ELSE FirstSessionProblem(sessions, i + 1)

\* validate_task_request
validate_task_request(data) ==
    IF data.task_id = "" THEN Some(Plain("task_id must be a non-empty string"))
    ELSE IF data.user_id = "" THEN Some(Plain("user_id must be a non-empty string"))
    ELSE IF "sleep_sessions" \notin DOMAIN data.payload THEN None
    ELSE IF Len(data.payload.sleep_sessions) > MAX_SLEEP_SESSIONS_PER_TASK
    THEN Some(Msg("Too many sleep sessions", MAX_SLEEP_SESSIONS_PER_TASK))
    ELSE FirstSessionProblem(data.payload.sleep_sessions, 1)

\* validate_sleep_session
validate_sleep_session(session) ==
    IF MissingField(session) # None
    THEN Some(Msg("Missing required field", MissingField(session)[1]))
    ELSE IF DurationOutOfRange(session)
    THEN Some(Msg("Invalid sleep duration", session.duration_hours))
    ELSE IF /\ session.efficiency_score # NaN
            /\ (session.efficiency_score < 0 \/ session.efficiency_score > 100)
    THEN Some(Plain("efficiency_score must be between 0 and 100"))
    ELSE IF session.morning_mood = NaN
    THEN Some(Plain("morning_mood must be an integer"))
    ELSE IF session.morning_mood # 0 /\ (session.morning_mood < 1 \/ session.morning_mood > 10)
    THEN Some(Plain("morning_mood must be between 1 and 10"))
    ELSE None

(***************************************************************************)
(* The agent state and the workflow nodes (src/agent/nodes.py).  The       *)
(* optional LLM step is off (Config.USE_GEMINI defaults to False).         *)
(***************************************************************************)
\* process_task, lines 98-115
initial_state(task_data) ==
    [task_id |-> Get(task_data, "task_id", ""),
     user_id |-> Get(task_data, "user_id", ""),
     payload |-> Get(task_data, "payload", EmptyDict),
     memory |-> EmptyDict,
     stm_sessions |-> None,
     ltm_data |-> None,
     analysis |-> None,
     sleep_score |-> 0,
     confidence |-> Q(0, 1),
     recommendations |-> None,
     personalized_tips |-> <<>>,
     result |-> None,
     summary |-> <<>>,
     issues |-> <<>>,
     errors |-> <<>>,
     status |-> "processing"]

\* state['payload'].get('sleep_sessions', [])
PayloadSessions(state) == Get(state.payload, "sleep_sessions", <<>>)
\* state['payload'].get('profile', {})
PayloadProfile(state) == Get(state.payload, "profile", EmptyDict)
\* state.get('stm_sessions', []) once memory_fetch has run
StmSessionsOf(state) == IF state.stm_sessions = None THEN <<>> ELSE state.stm_sessions[1]
\* state.get('ltm_data', {}) once memory_fetch has run
LtmDataOf(state) == IF state.ltm_data = None THEN EmptyDict ELSE state.ltm_data[1]

\* validation_node, lines 46-51: one error entry per invalid session.
RECURSIVE SessionErrors(_, _)
SessionErrors(sessions, i) ==
    IF i > Len(sessions) THEN <<>>
    ELSE (IF validate_sleep_session(sessions[i]) # None
          THEN <<Msg("Session validation error", <<i - 1, validate_sleep_session(sessions[i])[1]>>)>>
          ELSE <<>>)
         \o SessionErrors(sessions, i + 1)

\* Mutant of validation_node: the per-session errors are recorded and the
\* status is set to 'processing' all the same.
validation_node_status_processing(state) ==
    LET task_data == [task_id |-> state.task_id, user_id |-> state.user_id,
                      payload |-> state.payload]
        envelope == validate_task_request(task_data)
        errors == state.errors \o SessionErrors(PayloadSessions(state), 1)
    IN  IF envelope # None
        THEN [state EXCEPT !.errors = Append(@, Msg("Validation error", envelope[1])),
                           !.status = "error"]
        ELSE [state EXCEPT !.errors = errors, !.status = "processing"]

\* validation_node
validation_node(state) ==
    LET task_data == [task_id |-> state.task_id, user_id |-> state.user_id,
                      payload |-> state.payload]
        envelope == validate_task_request(task_data)
        errors == state.errors \o SessionErrors(PayloadSessions(state), 1)
    IN  IF envelope # None
        THEN [state EXCEPT !.errors = Append(@, Msg("Validation error", envelope[1])),
                           !.status = "error"]
        ELSE [state EXCEPT !.errors = errors,
                           !.status = IF errors # <<>> THEN "error" ELSE "processing"]

\* Mutant of memory_fetch_node: a user without a stored record is an error.
memory_fetch_node_missing_is_error(state, st, stmReadOk, ltmReadOk) ==
    IF get_memory(st, state.user_id, "stm", stmReadOk) = None
       \/ get_memory(st, state.user_id, "ltm", ltmReadOk) = None
    THEN [state EXCEPT !.errors = Append(@, Plain("Memory fetch error"))]
    ELSE [state EXCEPT
            !.stm_sessions = Some(get_sessions(st, state.user_id, stmReadOk)),
            !.ltm_data = Some(ltm_or_empty(st, state.user_id, ltmReadOk))]

\* memory_fetch_node
memory_fetch_node(state, st, stmReadOk, ltmReadOk) ==
    LET stm_sessions == get_sessions(st, state.user_id, stmReadOk)
        ltm_data == ltm_or_empty(st, state.user_id, ltmReadOk)
        payload_sessions == PayloadSessions(state)
    IN  [state EXCEPT
            !.stm_sessions = Some(stm_sessions),
            !.ltm_data = Some(ltm_data),
            !.memory = [stm_count |-> Len(stm_sessions),
                        payload_count |-> Len(payload_sessions),
                        ltm_available |-> ltm_data # EmptyDict,
                        ltm_trends |-> Get(ltm_data, "trends", EmptyDict),
                        ltm_patterns |-> Get(ltm_data, "patterns", <<>>),
                        ltm_preferences |-> Get(ltm_data, "preferences", EmptyDict),
                        total_sessions |-> Len(stm_sessions) + Len(payload_sessions)]]

\* reasoning_node, lines 157-172: the analysis enhanced with stored trends
\* and patterns.
EnhanceWithLtm(analysis, ltm_trends, ltm_patterns) ==
    LET a1 == IF ltm_trends # EmptyDict /\ "avg_duration" \in DOMAIN ltm_trends
              THEN [analysis EXCEPT !.duration_analysis =
                        Update(@, [ltm_average |-> ltm_trends.avg_duration])]
              ELSE analysis
        a2 == IF ltm_trends # EmptyDict /\ "avg_efficiency" \in DOMAIN ltm_trends
              THEN [a1 EXCEPT !.efficiency_analysis =
                        Update(@, [ltm_average |-> ltm_trends.avg_efficiency])]
              ELSE a1
    IN  IF ltm_patterns # <<>> THEN Update(a2, [ltm_patterns |-> ltm_patterns]) ELSE a2

\* reasoning_node
reasoning_node(state) ==
    LET all_sessions == StmSessionsOf(state) \o PayloadSessions(state)
        profile == PayloadProfile(state)
        ltm_data == LtmDataOf(state)
        analysis == EnhanceWithLtm(analyze(all_sessions, profile),
                                   Get(ltm_data, "trends", EmptyDict),
                                   Get(ltm_data, "patterns", <<>>))
    IN  IF analyze_raises(all_sessions, profile)
        THEN [state EXCEPT !.errors = Append(@, Plain("Reasoning node error"))]
        ELSE [state EXCEPT !.analysis = Some(analysis)]

\* recommendation_engine_node, lines 241-250: one tip per stored pattern of
\* a known type.
RECURSIVE PatternRecommendations(_)
PatternRecommendations(patterns) ==
    IF patterns = <<>> THEN <<>>
    ELSE (IF Head(patterns).type = "consistent_bedtime"
          THEN <<Plain("Maintain your consistent bedtime routine")>>
          ELSE IF Head(patterns).type = "sufficient_data"
          THEN <<Plain("Continue tracking for better insights")>>
          ELSE <<>>)
         \o PatternRecommendations(Tail(patterns))

\* recommendation_engine_node: the dict it returns.
recommendation_engine_node(state) ==
    LET ltm_data == LtmDataOf(state)
        trends == Get(ltm_data, "trends", EmptyDict)
        patterns == Get(ltm_data, "patterns", <<>>)
        preferences == Get(ltm_data, "preferences", EmptyDict)
        profile == Update(PayloadProfile(state),
                          [k \in DOMAIN preferences
                                   \cap {"preferred_duration", "preferred_bedtime"}
                              |-> preferences[k]])
        generated == generate_recommendations(state.analysis[1], profile, trends)
        recommendations ==
            IF PatternRecommendations(patterns) # <<>>
            THEN [generated EXCEPT !.personalized_tips = @ \o PatternRecommendations(patterns)]
            ELSE generated
    IN  IF generate_recommendations_raises(state.analysis, profile, trends)
        THEN [recommendations |-> Some(EmptyDict), personalized_tips |-> <<>>]
        ELSE [recommendations |-> Some(recommendations),
              personalized_tips |-> recommendations.personalized_tips]

\* Mutant of scorer_node: it returns the whole state.
scorer_node_whole_state(state) ==
    LET all_sessions == PayloadSessions(state) \o StmSessionsOf(state)
        score_result == calculate_score(all_sessions, state.analysis)
    IN  IF calculate_score_raises(all_sessions, state.analysis)
        THEN [state EXCEPT !.sleep_score = 0, !.confidence = Q(0, 1)]
        ELSE [state EXCEPT !.sleep_score = score_result.sleep_score,
                           !.confidence = score_result.confidence]

\* scorer_node: the dict it returns.
scorer_node(state) ==
    LET all_sessions == PayloadSessions(state) \o StmSessionsOf(state)
        score_result == calculate_score(all_sessions, state.analysis)
    IN  IF calculate_score_raises(all_sessions, state.analysis)
        THEN [sleep_score |-> 0, confidence |-> Q(0, 1)]
        ELSE [sleep_score |-> score_result.sleep_score,
              confidence |-> score_result.confidence]

\* The outcomes of the store accesses of one memory_write: every read and
\* every write succeeds.
AllOk ==
    [stm_read |-> TRUE, stm_write |-> TRUE, trends_read |-> TRUE, trends_write |-> TRUE,
     recs_read |-> TRUE, recs_write |-> TRUE]

\* memory_write_node, lines 320-331: the issues it saves, and whether it
\* has anything to save.  `analysis` is the dict.
IssuesToSave(state, analysis) ==
    IF state.issues # <<>> THEN state.issues ELSE Get(analysis, "issues", <<>>)

HasDataToSave(state, analysis) ==
    LET has_recommendations == state.recommendations # None
        has_score == state.sleep_score > 0 \/ QLt(Q(0, 1), state.confidence)
        has_tips == Len(state.personalized_tips) > 0
        has_issues == Len(IssuesToSave(state, analysis)) > 0
    IN  has_recommendations \/ has_score \/ has_tips \/ has_issues

\* The number of the calls that returned False.
Failed(oks) == Cardinality({i \in DOMAIN oks : ~oks[i]})

\* memory_write_node, the try block (lines 285-362): [raised, store, calls],
\* calls counting the calls of save_sessions, update_trends and
\* update_recommendations it made and how many of them returned False.
memory_write_try(state, st, t, o) ==
    LET user_id == state.user_id
        payload_sessions == PayloadSessions(state)
        existing_stm_sessions == StmSessionsOf(state)
        saved == IF payload_sessions # <<>>
                 THEN save_sessions(st, t, user_id, payload_sessions,
                                    o.stm_read, o.stm_write)
                 ELSE [ok |-> TRUE, store |-> st]
        st1 == saved.store
        all_sessions == existing_stm_sessions \o payload_sessions
        trended == IF all_sessions # <<>>
                   THEN update_trends(st1, t, user_id, all_sessions,
                                      o.trends_read, o.trends_write)
                   ELSE [ok |-> TRUE, store |-> st1]
        st2 == trended.store
        calls12 == [save_sessions |-> IF payload_sessions # <<>> THEN 1 ELSE 0,
                    update_trends |-> IF all_sessions # <<>> THEN 1 ELSE 0]
        recommendations ==
            IF state.recommendations = None THEN EmptyDict ELSE state.recommendations[1]
        success == update_recommendations(st2, t, user_id, recommendations,
                       state.sleep_score, state.confidence, state.personalized_tips,
                       Some(IssuesToSave(state, state.analysis[1])),
                       o.recs_read, o.recs_write)
    IN  IF state.analysis = None
        THEN [raised |-> TRUE,
              store |-> st2,
              calls |-> Update(calls12, [update_recommendations |-> 0,
                                         failed_writes |-> Failed(<<saved.ok, trended.ok>>)])]
        ELSE IF HasDataToSave(state, state.analysis[1])
        THEN [raised |-> FALSE,
              store |-> success.store,
              calls |-> Update(calls12, [update_recommendations |-> 1,
                                         failed_writes |->
                                             Failed(<<saved.ok, trended.ok, success.ok>>)])]
        ELSE [raised |-> FALSE,
              store |-> st2,
              calls |-> Update(calls12, [update_recommendations |-> 0,
                                         failed_writes |-> Failed(<<saved.ok, trended.ok>>)])]

\* Mutant of memory_write_node: a write that returns False is reported in
\* errors like an exception.
memory_write_node_reporting_failures(state, st, t, o) ==
    LET w == memory_write_try(state, st, t, o)
    IN  [state |-> IF w.raised \/ w.calls.failed_writes > 0
                   THEN [state EXCEPT !.errors = Append(@, Plain("Memory write error"))]
                   ELSE state,
         store |-> w.store,
         calls |-> w.calls]

\* memory_write_node: [state, store, calls].  Only an exception reaches the
\* except block (lines 364-368); what the memory calls return is logged or
\* dropped.
memory_write_node(state, st, t, o) ==
    LET w == memory_write_try(state, st, t, o)
    IN  [state |-> IF w.raised
                   THEN [state EXCEPT !.errors = Append(@, Plain("Memory write error"))]
                   ELSE state,
         store |-> w.store,
         calls |-> w.calls]

\* formatter_node
formatter_node(state) ==
    LET analysis == state.analysis[1]
        issues == Get(analysis, "issues", <<>>)
        summary == Get(analysis, "summary", <<Plain("Sleep analysis completed.")>>)
        result == [summary |-> summary,
                   issues |-> issues,
                   recommendations |-> state.recommendations,
                   sleep_score |-> state.sleep_score,
                   confidence |-> state.confidence,
                   personalized_tips |-> state.personalized_tips]
    IN  IF state.analysis = None
        THEN [state EXCEPT !.errors = Append(@, Plain("Formatter node error")),
                           !.status = "error"]
        ELSE [state EXCEPT !.issues = issues, !.summary = summary,
                           !.result = Some(result), !.status = "completed"]

(***************************************************************************)
(* The workflow graph and process_task (src/agent/workflow.py).  The       *)
(* compiled graph runs in steps: the nodes scheduled in a step all run on  *)
(* the state the step started with; when all of them have returned, the    *)
(* dicts they returned are written into the state and the nodes their      *)
(* edges lead to are scheduled for the next step.  The graph ends when a   *)
(* step schedules nothing.                                                 *)
(***************************************************************************)
Nodes ==
    {"validation", "memory_fetch", "reasoning", "recommendation_engine", "scorer",
     "memory_write", "formatter"}

\* Mutant of should_continue: the validation verdict is ignored.
should_continue_always(state) == "continue"

\* _should_continue
should_continue(state) ==
    IF state.status = "error" \/ state.errors # <<>> THEN "error" ELSE "continue"

\* Mutant of Edges: memory_write has no edge to formatter.
EdgesWithoutFormatter(n) ==
    IF n = "memory_fetch" THEN {"reasoning"}
    ELSE IF n = "reasoning" THEN {"recommendation_engine", "scorer"}
    ELSE IF n = "recommendation_engine" THEN {"memory_write"}
    ELSE IF n = "scorer" THEN {"memory_write"}
    ELSE {}

\* create_workflow, lines 51-66: the unconditional edges (END is no node).
Edges(n) ==
    IF n = "memory_fetch" THEN {"reasoning"}
    ELSE IF n = "reasoning" THEN {"recommendation_engine", "scorer"}
    ELSE IF n = "recommendation_engine" THEN {"memory_write"}
    ELSE IF n = "scorer" THEN {"memory_write"}
    ELSE IF n = "memory_write" THEN {"formatter"}
    ELSE {}

\* Mutant of Successors: every node is followed by the error check.
SuccessorsAllConditional(n, state) ==
    IF should_continue(state) = "error" THEN {}
    ELSE IF n = "validation" THEN {"memory_fetch"}
    ELSE Edges(n)

\* create_workflow, lines 39-66: where the graph goes after node n, given
\* the state n left.
Successors(n, state) ==
    IF n = "validation"
    THEN (IF should_continue(state) = "continue" THEN {"memory_fetch"} ELSE {})
    ELSE Edges(n)

\* Mutant of StepComplete: the first node to return ends the step.
StepCompleteOnFirst(scheduled, returned) == returned # {}

\* A step of the graph is complete when every node scheduled in it returned.
StepComplete(scheduled, returned) == scheduled \subseteq returned

\* The returned dicts written into the state, in the order the nodes returned.
RECURSIVE ApplyWrites(_, _)
ApplyWrites(state, writes) ==
    IF writes = <<>> THEN state
    ELSE ApplyWrites(Update(state, Head(writes)[2]), Tail(writes))

Returned(writes) == {writes[i][1] : i \in DOMAIN writes}

\* Mutant of process_task_response: the final state is not checked for
\* errors.
process_task_response_unchecked(final_state) ==
    [task_id |-> final_state.task_id, status |-> "completed",
     result |-> final_state.result]

\* process_task, lines 121-134
process_task_response(final_state) ==
    IF final_state.status = "error" \/ final_state.errors # <<>>
    THEN [task_id |-> final_state.task_id, status |-> "error",
          error |-> final_state.errors]
    ELSE [task_id |-> final_state.task_id, status |-> "completed",
          result |-> final_state.result]

\* Node n is scheduled and has not returned yet.
Runnable(n) == pc = "running" /\ n \in active /\ n \notin Returned(finished)

\* Node n returns `returned`: the step goes on, or it completes and the next
\* one is scheduled.
NodeReturns(n, returned) ==
    LET writes == Append(finished, <<n, returned>>)
        state == ApplyWrites(task[1], writes)
        next == UNION {Successors(m, state) : m \in active}
    IN  /\ trace' = Append(trace, n)
        /\ IF StepComplete(active, Returned(writes))
           THEN /\ task' = Some(state)
                /\ active' = next
                /\ finished' = <<>>
                /\ pc' = IF next = {} THEN "ended" ELSE "running"
           ELSE /\ finished' = writes
                /\ UNCHANGED <<task, active, pc>>

\* process_task, lines 98-119: the task enters the workflow.
Submit(task_data) ==
    /\ pc = "idle"
    /\ pc' = "running"
    /\ task' = Some(initial_state(task_data))
    /\ active' = {"validation"}
    /\ finished' = <<>>
    /\ response' = None
    /\ trace' = <<>>
    /\ io' = NoIo
    /\ store0' = Some(store)
    /\ UNCHANGED memvars

Validation ==
    /\ Runnable("validation")
    /\ NodeReturns("validation", validation_node(task[1]))
    /\ UNCHANGED <<memvars, response, io, store0>>

MemoryFetch(stmReadOk, ltmReadOk) ==
    /\ Runnable("memory_fetch")
    /\ NodeReturns("memory_fetch", memory_fetch_node(task[1], store, stmReadOk, ltmReadOk))
    /\ io' = [io EXCEPT !.get_sessions = @ + 1, !.get_memory = @ + 1]
    /\ UNCHANGED <<memvars, response, store0>>

Reasoning ==
    /\ Runnable("reasoning")
    /\ NodeReturns("reasoning", reasoning_node(task[1]))
    /\ UNCHANGED <<memvars, response, io, store0>>

RecommendationEngine ==
    /\ Runnable("recommendation_engine")
    /\ NodeReturns("recommendation_engine", recommendation_engine_node(task[1]))
    /\ UNCHANGED <<memvars, response, io, store0>>

Scorer ==
    /\ Runnable("scorer")
    /\ NodeReturns("scorer", scorer_node(task[1]))
    /\ UNCHANGED <<memvars, response, io, store0>>

MemoryWrite(o) ==
    LET r == memory_write_node(task[1], store, now, o)
    IN  /\ Runnable("memory_write")
        /\ NodeReturns("memory_write", r.state)
        /\ store' = r.store
        /\ io' = [io EXCEPT !.save_sessions = @ + r.calls.save_sessions,
                            !.update_trends = @ + r.calls.update_trends,
                            !.update_recommendations = @ + r.calls.update_recommendations,
                            !.failed_writes = @ + r.calls.failed_writes]
        /\ UNCHANGED <<now, last, reqs, response, store0>>

Formatter ==
    /\ Runnable("formatter")
    /\ NodeReturns("formatter", formatter_node(task[1]))
    /\ UNCHANGED <<memvars, response, io, store0>>

\* process_task, lines 121-134: the workflow has ended, the caller gets the
\* response.
Return ==
    /\ pc = "ended"
    /\ pc' = "idle"
    /\ response' = Some(process_task_response(task[1]))
    /\ task' = None
    /\ active' = {}
    /\ finished' = <<>>
    /\ trace' = <<>>
    /\ io' = NoIo
    /\ store0' = None
    /\ UNCHANGED memvars

(***************************************************************************)
(* The pipeline: tasks for one user, one at a time, against a healthy      *)
(* store.                                                                  *)
(***************************************************************************)
\* Longest sleep_sessions list of a task.
MaxPayload == 1

PipeUsers == {"u1"}

PipeSessions ==
    {MkSession("", NaiveDate(STM_RETENTION_DAYS), "22:00", "06:00", 80, 0, 0, 0),
     MkSession("", NaiveDate(STM_RETENTION_DAYS), "22:00", "06:00", 80, NaN, 0, 0),
     MkSession("", NaiveDate(STM_RETENTION_DAYS), "23:30", "05:00", 55, 60, 2, 4),
     MkSession("", NaiveDate(STM_RETENTION_DAYS), "22:00", "06:00", 170, 0, 0, 0),
     MkSession("", NaiveDate(STM_RETENTION_DAYS), "22:00", "06:00", 80, 150, 0, 0)}

PipeProfiles == {EmptyDict, [age |-> Text], [screen_time |-> Text]}

\* The tasks: a missing user_id is the empty string (task_data.get).
TaskInputs ==
    {[task_id |-> "t1", user_id |-> u,
      payload |-> [sleep_sessions |-> sessions, profile |-> profile]] :
        u \in PipeUsers \cup {""},
        sessions \in SeqsUpTo(PipeSessions, MaxPayload),
        profile \in PipeProfiles}

Init ==
    /\ store = EmptyStore(PipeUsers)
    /\ now = STM_RETENTION_DAYS
    /\ last = NoCall
    /\ reqs = NoRequests
    /\ NoTaskYet

\* A task is taken while the user's total_sessions_analyzed can stay within
\* MaxTotal.
SubmitAny ==
    \E task_data \in TaskInputs :
        /\ Get(Ltm(task_data.user_id), "total_sessions_analyzed", 0)
               + Len(Stored(task_data.user_id))
               + Len(task_data.payload.sleep_sessions) <= MaxTotal
        /\ Submit(task_data)

MemoryFetchAny == MemoryFetch(TRUE, TRUE)

MemoryWriteAny == MemoryWrite(AllOk)

Next ==
    \/ SubmitAny
    \/ Validation
    \/ MemoryFetchAny
    \/ Reasoning
    \/ RecommendationEngine
    \/ Scorer
    \/ MemoryWriteAny
    \/ Formatter
    \/ Return

Spec == Init /\ [][Next]_vars

(***************************************************************************)
(* The claims about the pipeline.                                          *)
(***************************************************************************)
Branches == {"recommendation_engine", "scorer"}

LegalOrders ==
    {<<"validation", "memory_fetch", "reasoning", "recommendation_engine", "scorer",
       "memory_write", "formatter">>,
     <<"validation", "memory_fetch", "reasoning", "scorer", "recommendation_engine",
       "memory_write", "formatter">>}

IsPrefix(s, t) == Len(s) <= Len(t) /\ \A i \in DOMAIN s : s[i] = t[i]

Times(n) == Cardinality({i \in DOMAIN trace : trace[i] = n})

\* The errors the validator records for the task the state belongs to (no
\* node changes task_id, user_id or payload).
ValidatorErrors(state) ==
    validation_node(initial_state([task_id |-> state.task_id, user_id |-> state.user_id,
                                   payload |-> state.payload])).errors

\* C5: the stages of a task run in the order validation, memory_fetch,
\* reasoning, {recommendation_engine, scorer} in either order, memory_write,
\* formatter.  The workflow ends either right after validation, and then
\* only because validation left an error, or after formatter: no later
\* stage ends it early, whatever errors it recorded.
C5_StagesRunInFixedOrder ==
    /\ \E order \in LegalOrders : IsPrefix(trace, order)
    /\ pc = "ended" =>
          \/ trace \in LegalOrders
          \/ trace = <<"validation">> /\ should_continue(task[1]) = "error"
    /\ pc = "running" => active # {} /\ active \subseteq Nodes

\* A stage after validation recorded an error and the workflow still ran
\* through formatter.
C5_Witness ==
    /\ pc = "ended"
    /\ trace \in LegalOrders
    /\ ValidatorErrors(task[1]) = <<>>
    /\ \E i \in DOMAIN task[1].errors : task[1].errors[i] = Plain("Reasoning node error")

\* C6: when the validator records an error the workflow ends there, the
\* task is answered with status 'error', and no memory stage has run: no
\* store read, no store write, the store as it was when the task came in.
C6_ValidationErrorTouchesNoMemory ==
    trace # <<>> /\ ValidatorErrors(task[1]) # <<>> =>
        /\ trace = <<"validation">>
        /\ pc = "ended"
        /\ process_task_response(task[1]).status = "error"
        /\ io = NoIo
        /\ Some(store) = store0

\* The workflow of a task without user_id has ended while the store holds
\* sessions of an earlier task.
C6_Witness ==
    /\ pc = "ended"
    /\ task[1].user_id = ""
    /\ trace = <<"validation">>
    /\ process_task_response(task[1]).status = "error"
    /\ \E u \in PipeUsers : Stored(u) # <<>>

\* C7: memory_write is scheduled only when both scorer and
\* recommendation_engine have returned; while only one of them has, both
\* stay scheduled and memory_write is not; memory_write runs at most once,
\* and exactly once in a task that reaches formatter.
C7_MemoryWriteWaitsForBothBranches ==
    /\ "memory_write" \in active \/ Times("memory_write") > 0 =>
          Branches \subseteq Range(trace)
    /\ Returned(finished) \cap Branches # {} =>
          pc = "running" /\ active = Branches
    /\ Times("memory_write") <= 1
    /\ Times("formatter") > 0 => Times("memory_write") = 1

\* memory_write has run in a task whose scorer returned first.
C7_Witness ==
    /\ Len(trace) >= 6
    /\ trace[4] = "scorer"
    /\ trace[5] = "recommendation_engine"
    /\ trace[6] = "memory_write"

\* C8: scorer returns sleep_score and confidence only, the recommender
\* recommendations and personalized_tips only; the state memory_write gets
\* is the state reasoning left with these four keys written, the same in
\* whichever order the two returned.
C8_FanInMergeIsOrderIndependent ==
    [][/\ \A i \in DOMAIN finished' :
             /\ finished'[i][1] = "scorer" =>
                   DOMAIN finished'[i][2] = {"sleep_score", "confidence"}
             /\ finished'[i][1] = "recommendation_engine" =>
                   DOMAIN finished'[i][2] = {"recommendations", "personalized_tips"}
       /\ active = Branches /\ active' # Branches =>
             LET s == task[1]
                 r == recommendation_engine_node(s)
                 c == scorer_node(s)
             IN  /\ task' = Some(Update(Update(s, r), c))
                 /\ task' = Some(Update(Update(s, c), r))
                 /\ \A k \in DOMAIN s \ (DOMAIN r \cup DOMAIN c) : task'[1][k] = s[k]
                 /\ active' = {"memory_write"}]_vars

\* memory_write is next, the recommender returned first, and both the
\* recommendations and the score are in the state.
C8_Witness ==
    /\ pc = "running"
    /\ active = {"memory_write"}
    /\ trace[4] = "recommendation_engine"
    /\ task[1].recommendations # None
    /\ task[1].recommendations[1] # EmptyDict
    /\ task[1].sleep_score > 0

\* C10: memory_write calls update_recommendations only if the
\* recommendations are non-empty, or the score or the confidence is
\* positive, or there are tips, or there are issues.
C10_RecommendationsWrittenOnlyWithData ==
    io.update_recommendations > 0 =>
        \/ task[1].recommendations # None /\ task[1].recommendations[1] # EmptyDict
        \/ task[1].sleep_score > 0
        \/ QLt(Q(0, 1), task[1].confidence)
        \/ task[1].personalized_tips # <<>>
        \/ IssuesToSave(task[1], task[1].analysis[1]) # <<>>

\* C12: a valid task without payload sessions, for a user without stored
\* sessions, completes with sleep_score 0, confidence 0.0 and the single
\* issue "No sleep data available"; the Analyzer returns its empty analysis
\* (no caffeine, screen-time or exercise part) and the Scorer an empty
\* breakdown.
C12_EmptyTaskScoresZero ==
    /\ pc = "ended"
    /\ ValidatorErrors(task[1]) = <<>>
    /\ PayloadSessions(task[1]) = <<>>
    /\ StmSessionsOf(task[1]) = <<>>
    => LET r == process_task_response(task[1])
           analysis == task[1].analysis[1]
       IN  /\ r.status = "completed"
           /\ r.result # None
           /\ r.result[1].sleep_score = 0
           /\ r.result[1].confidence = Q(0, 1)
           /\ r.result[1].issues = <<Plain("No sleep data available")>>
           /\ DOMAIN analysis = {"duration_analysis", "consistency_analysis",
                                 "efficiency_analysis", "interruption_analysis",
                                 "issues", "summary"}
           /\ \A k \in DOMAIN analysis \ {"issues", "summary"} : analysis[k] = EmptyDict
           /\ calculate_score(<<>>, task[1].analysis).breakdown = EmptyDict

\* The workflow of such a task has ended, with recommendations generated.
C12_Witness ==
    /\ pc = "ended"
    /\ trace \in LegalOrders
    /\ task[1].user_id = "u1"
    /\ PayloadSessions(task[1]) = <<>>
    /\ StmSessionsOf(task[1]) = <<>>
    /\ task[1].status = "completed"
    /\ task[1].recommendations # Some(EmptyDict)

(***************************************************************************)
(* The Analyzer and the Scorer called on session lists.  A state is the    *)
(* list to be passed, or the last call with what it returned.              *)
(***************************************************************************)
\* Longest list of mixed sessions, and longest list of one repeated session.
MaxScoreLen == 2
MaxRepeat == 7

\* duration_hours in tenths of an hour (0: the field is absent).
ScoreDurations == {0, 5, 30, 65, 70, 75, 80, 90, 95, 120, 160, 200}

ScoreSessions ==
    {MkSession("", NaiveDate(STM_RETENTION_DAYS), "22:00", "06:00", d, 0, 0, 0) :
        d \in ScoreDurations}
    \cup {MkSession("", NaiveDate(STM_RETENTION_DAYS), "23:30", "05:00", 55, 60, 2, 4),
          MkSession("", NaiveDate(STM_RETENTION_DAYS), "22:00", "06:00", 80, NaN, 0, 0),
          MkSession("", NaiveDate(STM_RETENTION_DAYS), "", "", 80, 90, 0, 0)}

Repeat(s, n) == [i \in 1..n |-> s]

ScoreInputs ==
    SeqsUpTo(ScoreSessions, MaxScoreLen)
    \cup {Repeat(s, n) : s \in ScoreSessions, n \in 1..MaxRepeat}

ScoreInit ==
    /\ store = EmptyStore({})
    /\ now = STM_RETENTION_DAYS
    /\ \E sessions \in ScoreInputs : last = [op |-> "sessions", sessions |-> sessions]
    /\ reqs = NoRequests
    /\ NoTaskYet

\* analyzer.analyze(sessions, {})
Analyze ==
    /\ last.op = "sessions"
    /\ last' = [op |-> "analyze", sessions |-> last.sessions,
                analysis |-> analyze(last.sessions, EmptyDict)]
    /\ UNCHANGED <<store, now, reqs, pipevars>>

\* scorer.calculate_score(sessions, analysis), with the analysis of the
\* sessions as reasoning_node leaves it, or without one.  The record holds
\* what the call returned (None when it raised) and what its helpers
\* returned.
CalculateScore(withAnalysis) ==
    LET sessions == last.sessions
        analysis == IF withAnalysis THEN Some(analyze(sessions, EmptyDict)) ELSE None
    IN  /\ last.op = "sessions"
        /\ last' = [op |-> "calculate_score", sessions |-> sessions,
                    analysis |-> analysis,
                    result |-> IF calculate_score_raises(sessions, analysis) THEN None
                               ELSE Some(calculate_score(sessions, analysis)),
                    duration_score |-> score_duration(sessions, analysis),
                    efficiency_score |-> score_efficiency(sessions, analysis),
                    confidence |-> calculate_confidence(sessions, analysis)]
        /\ UNCHANGED <<store, now, reqs, pipevars>>

CalculateScoreAny == \E withAnalysis \in BOOLEAN : CalculateScore(withAnalysis)

ScoreNext == Analyze \/ CalculateScoreAny

SpecScore == ScoreInit /\ [][ScoreNext]_vars

NoEfficiency(sessions) == \A i \in DOMAIN sessions : sessions[i].efficiency_score = 0

\* 8h, no interruptions, no efficiency score.
EightHourSession == MkSession("", NaiveDate(STM_RETENTION_DAYS), "22:00", "06:00", 80, 0, 0, 0)

\* C11: when no session carries an efficiency score, the efficiency
\* sub-score that goes into the score of a task (the Scorer called with the
\* analysis of the sessions) is 50, and 7 sessions of 8h with the same
\* bedtime and waketime, no interruptions and no efficiency score give
\* sleep_score 85.
C11_EfficiencyDefaultsTo50 ==
    /\ last.op = "calculate_score"
    /\ last.analysis # None
    /\ last.sessions # <<>>
    /\ NoEfficiency(last.sessions)
    => /\ last.efficiency_score = Q(50, 1)
       /\ last.sessions = Repeat(EightHourSession, 7) =>
             last.result # None /\ last.result[1].sleep_score = 85

\* The mean duration _score_duration works with: the analysis average when
\* an analysis with a duration part is passed (0 when that part is empty),
\* else the mean of the sessions' durations (0 when there is none).
MeanDuration(sessions, analysis) ==
    IF analysis # None /\ "duration_analysis" \in DOMAIN analysis[1]
    THEN Get(analysis[1].duration_analysis, "average", Q(0, 1))
    ELSE IF Durations(sessions) = <<>> THEN Q(0, 1)
    ELSE QAvg(Durations(sessions))

OneSession(d) == <<MkSession("", NaiveDate(STM_RETENTION_DAYS), "22:00", "06:00", d, 0, 0, 0)>>

\* C13: as a function of the mean duration d the duration sub-score is 100
\* on [7, 9], 0 at 0, d/7 * 100 below 7 (a single 3h session: 300/7, shown
\* as 42.9), never outside [0, 100], non-decreasing up to 7 and
\* non-increasing from 9 to MAX_SLEEP_DURATION.
C13_DurationScoreShape ==
    last.op = "calculate_score" =>
        LET d == MeanDuration(last.sessions, last.analysis)
            score == last.duration_score
            maxd == Q(MAX_SLEEP_DURATION, 10)
        IN  /\ QLe(Q(0, 1), score) /\ QLe(score, Q(100, 1))
            /\ QLe(OptMin, d) /\ QLe(d, OptMax) => score = Q(100, 1)
            /\ d = Q(0, 1) => score = Q(0, 1)
            /\ QLe(Q(0, 1), d) /\ QLt(d, OptMin) => score = QDiv(QMul(d, Q(100, 1)), OptMin)
            /\ last.sessions = OneSession(30) =>
                  /\ score = Q(300, 7)
                  /\ last.result[1].breakdown.duration_score = Q(429, 10)
            /\ \A d2 \in ScoreDurations :
                  LET other == score_duration(OneSession(d2), None)
                  IN  /\ QLe(Q(d2, 10), d) /\ QLe(d, OptMin) => QLe(other, score)
                      /\ QLe(OptMax, d) /\ QLe(d, Q(d2, 10)) /\ QLe(Q(d2, 10), maxd) =>
                            QLe(other, score)

\* A single 3h session has been scored with its analysis.
C13_Witness ==
    /\ last.op = "calculate_score"
    /\ last.sessions = OneSession(30)
    /\ last.analysis # None
    /\ last.duration_score = Q(300, 7)

\* C14: for every session list the Scorer yields a confidence in [0, 1],
\* which is 0.0 if and only if the list is empty.
C14_ConfidenceZeroIffEmpty ==
    last.op = "calculate_score" =>
        /\ QLe(Q(0, 1), last.confidence) /\ QLe(last.confidence, Q(1, 1))
        /\ last.confidence = Q(0, 1) <=> last.sessions = <<>>
        /\ last.result # None
        /\ QLe(Q(0, 1), last.result[1].confidence)
        /\ QLe(last.result[1].confidence, Q(1, 1))
        /\ last.result[1].confidence = Q(0, 1) <=> last.sessions = <<>>

\* C15: for a non-empty list of bedtimes (or waketimes) the consistency
\* value is in [0, 1], and it is exactly 1.0 when all values are the same,
\* whatever the length of the list.
C15_ConsistencyInUnitInterval ==
    last.op = "analyze" =>
        \A f \in {"bedtime", "waketime"} :
            LET values == TruthyStr(last.sessions, f)
                reported == last.analysis.consistency_analysis[f \o "_consistency"]
            IN  values # <<>> =>
                    /\ QLe(Q(0, 1), Consistency(values))
                    /\ QLe(Consistency(values), Q(1, 1))
                    /\ QLe(Q(0, 1), reported) /\ QLe(reported, Q(1, 1))
                    /\ Cardinality(Range(values)) = 1 =>
                          Consistency(values) = Q(1, 1) /\ reported = Q(1, 1)

\* Two sessions with different bedtimes have been analysed: consistency 0.5.
C15_Witness ==
    /\ last.op = "analyze"
    /\ Len(last.sessions) = 2
    /\ Cardinality(Range(TruthyStr(last.sessions, "bedtime"))) = 2
    /\ last.analysis.consistency_analysis.bedtime_consistency = Q(1, 2)

(***************************************************************************)
(* The pipeline when a store call may never return.  The store calls carry *)
(* no socket timeout (storage.py, MongoClient), workflow.invoke is called  *)
(* without one, and Config.MAX_TASK_TIMEOUT is read nowhere: nothing takes *)
(* a task out of a call that blocks.                                       *)
(***************************************************************************)
\* The stages that call the store.
StoreStages == {"memory_fetch", "memory_write"}

\* The store call of stage n never returns: process_task stays inside
\* workflow.invoke.
Blocks(n) ==
    /\ Runnable(n)
    /\ pc' = "blocked"
    /\ UNCHANGED <<memvars, task, active, finished, response, trace, io, store0>>

BlocksAny == \E n \in StoreStages : Blocks(n)

BlockingNext == Next \/ BlocksAny

\* Weak fairness of every stage: a stage that is ready to run does not stay
\* ready forever.  A stage is enabled exactly when Runnable, and running it
\* (or blocking in it) ends Runnable, so this is WF_vars of each stage
\* action, stated on the states.
StageFairness == \A n \in Nodes : []<>~Runnable(n)

\* Every stage that is ready is eventually run and process_task returns once
\* workflow.invoke has: a task only stops where the code has no step left.
SpecBlocking == Init /\ [][BlockingNext]_vars /\ StageFairness /\ WF_vars(Return)

\* C16: a task whose stage blocks is ended by the per-task timeout and
\* answered with status 'error'; no task stays unfinished forever.
C16_BlockedTaskTimesOut ==
    /\ (pc = "blocked") ~> (pc = "idle" /\ response # None /\ response[1].status = "error")
    /\ (pc # "idle") ~> (pc = "idle")

(***************************************************************************)
(* Two requests for one user inside stm.save_sessions at once.  The method *)
(* reads the record (get_sessions, line 30) and writes the merged record   *)
(* (storage.save_memory, line 63) as two calls on the store with no lock   *)
(* and no version check between them (storage.py, update_one with upsert): *)
(* the steps of two requests interleave freely.                            *)
(***************************************************************************)
MaxConcSave == 1

ConcUsers == {"u1"}

\* Three sessions inside the retention window, with three different keys.
ConcSessions ==
    {MkSession("", NaiveDate(1), "22:00", "06:00", 60, 0, 0, 0),
     MkSession("", NaiveDate(2), "22:00", "06:00", 80, 0, 0, 0),
     MkSession("a", NaiveDate(1), "23:00", "07:00", 80, 0, 0, 0)}

ConcInit ==
    /\ store = EmptyStore(ConcUsers)
    /\ now = STM_RETENTION_DAYS
    /\ last = NoCall
    /\ reqs = NoRequests
    /\ NoTaskYet

\* Request r enters stm.save_sessions(u, sessions).
ConcCall(r, u, sessions) ==
    /\ reqs[r].pc = "idle"
    /\ reqs' = [reqs EXCEPT ![r] = [pc |-> "called", user |-> u, sessions |-> sessions]]
    /\ last' = NoCall
    /\ UNCHANGED <<store, now, pipevars>>

\* existing = self.get_sessions(user_id) or [] (line 30).  `seen` is the
\* store the read was served from, `stale` whether the user's record was
\* written since.
ConcRead(r) ==
    /\ reqs[r].pc = "called"
    /\ reqs' = [reqs EXCEPT ![r] =
                    [pc |-> "read", user |-> reqs[r].user, sessions |-> reqs[r].sessions,
                     existing |-> get_sessions(store, reqs[r].user, TRUE),
                     seen |-> store, stale |-> FALSE]]
    /\ last' = NoCall
    /\ UNCHANGED <<store, now, pipevars>>

\* Lines 32-63 of request r: merge, filter, sort, save_memory; the request
\* returns.  A successful write makes what the other requests have read for
\* this user stale.
ConcWrite(r, writeOk) ==
    /\ reqs[r].pc = "read"
    /\ LET q == reqs[r]
           w == save_sessions_after_read(store, now, q.user, q.existing, q.sessions, writeOk)
       IN  /\ store' = w.store
           /\ last' = [op |-> "write", user |-> q.user, ok |-> w.ok, sessions |-> q.sessions,
                       seen |-> q.seen, stale |-> q.stale, before |-> store]
           /\ reqs' = [o \in Requests |->
                          IF o = r THEN IdleRequest
                          ELSE IF w.ok /\ reqs[o].pc = "read" /\ reqs[o].user = q.user
                               THEN [reqs[o] EXCEPT !.stale = TRUE]
                               ELSE reqs[o]]
    /\ UNCHANGED <<now, pipevars>>

ConcCallAny ==
    \E r \in Requests, u \in ConcUsers, sessions \in SeqsUpTo(ConcSessions, MaxConcSave) :
        ConcCall(r, u, sessions)

ConcReadAny == \E r \in Requests : ConcRead(r)

ConcWriteAny == \E r \in Requests, writeOk \in BOOLEAN : ConcWrite(r, writeOk)

ConcNext == ConcCallAny \/ ConcReadAny \/ ConcWriteAny

SpecConcurrent == ConcInit /\ [][ConcNext]_vars

\* The stored sessions of user u in store st.
StoredIn(st, u) == get_sessions(st, u, TRUE)

\* C17: when a request writes the STM record after another request wrote it
\* since this one read it, the record is what this request alone would have
\* written on the store it read: the other request's write is replaced
\* (last write wins) and counts for nothing in the final record.
C17_LastWriteWins ==
    (last.op = "write" /\ last.ok /\ last.stale) =>
        store = save_sessions(last.seen, now, last.user, last.sessions, TRUE, TRUE).store

\* Both requests read, one wrote a session, then the other wrote: the
\* session the first one saved, inside the retention window, is in the
\* record before the last write and not after it.
C17_Witness ==
    /\ last.op = "write" /\ last.ok /\ last.stale
    /\ \E s \in Range(StoredIn(last.before, last.user)) :
          /\ InRetention(s, now - STM_RETENTION_DAYS)
          /\ s \notin Range(StoredIn(last.seen, last.user))
          /\ s \notin Range(Stored(last.user))

(***************************************************************************)
(* The pipeline on a store whose writes can fail: update_one raises inside *)
(* save_memory, which returns False (storage.py, lines 58-61), and so do   *)
(* save_sessions, update_trends and update_recommendations.                *)
(***************************************************************************)
\* What the store does to the calls of one memory_write: reads are served,
\* each write succeeds or fails.
WriteOutcomes ==
    {o \in [DOMAIN AllOk -> BOOLEAN] : o.stm_read /\ o.trends_read /\ o.recs_read}

MemoryWriteFaulty == \E o \in WriteOutcomes : MemoryWrite(o)

\* The tasks of one user: no session or a plain night, with a profile the
\* analyzer accepts or one it raises on.
FaultyTasks ==
    {task_data \in TaskInputs :
        /\ task_data.user_id \in PipeUsers
        /\ task_data.payload.profile \in {EmptyDict, [screen_time |-> Text]}
        /\ \A s \in Range(task_data.payload.sleep_sessions) :
              s.duration_hours = 80 /\ s.efficiency_score = 0}

FaultySubmitAny ==
    \E task_data \in FaultyTasks :
        /\ Get(Ltm(task_data.user_id), "total_sessions_analyzed", 0)
               + Len(Stored(task_data.user_id))
               + Len(task_data.payload.sleep_sessions) <= MaxTotal
        /\ Submit(task_data)

FaultyNext ==
    \/ FaultySubmitAny
    \/ Validation
    \/ MemoryFetchAny
    \/ Reasoning
    \/ RecommendationEngine
    \/ Scorer
    \/ MemoryWriteFaulty
    \/ Formatter
    \/ Return

SpecFaulty == Init /\ [][FaultyNext]_vars

\* The six fields of the result the formatter builds.
ResultFields ==
    {"summary", "issues", "recommendations", "sleep_score", "confidence", "personalized_tips"}

\* C18: when a write of memory_write failed, the formatter still runs and
\* the failure is nowhere in errors: a task whose analysis was produced ends
\* without errors and is answered 'completed' with the full result.
C18_FailedWriteStillCompletes ==
    (pc = "ended" /\ io.failed_writes > 0) =>
        /\ trace[Len(trace)] = "formatter"
        /\ task[1].analysis # None =>
              LET r == process_task_response(task[1])
              IN  /\ task[1].errors = <<>>
                  /\ r.status = "completed"
                  /\ r.result # None
                  /\ DOMAIN r.result[1] = ResultFields

\* A task with sessions whose three writes all failed, answered 'completed'.
C18_Witness ==
    /\ pc = "ended"
    /\ io.failed_writes = 3
    /\ store = store0[1]
    /\ process_task_response(task[1]).status = "completed"

(***************************************************************************)
(* Exceptions inside the analysis stages (specification Spec).             *)
(***************************************************************************)
\* The stages whose service call raised in the task that left `state`: the
\* inputs of the three stages are still in the state when the task ends.
ReasoningRaised(state) ==
    analyze_raises(StmSessionsOf(state) \o PayloadSessions(state), PayloadProfile(state))

ScorerRaised(state) ==
    calculate_score_raises(PayloadSessions(state) \o StmSessionsOf(state), state.analysis)

RecommenderRaised(state) ==
    LET ltm_data == LtmDataOf(state)
        preferences == Get(ltm_data, "preferences", EmptyDict)
        profile == Update(PayloadProfile(state),
                          [k \in DOMAIN preferences
                                   \cap {"preferred_duration", "preferred_bedtime"}
                              |-> preferences[k]])
    IN  generate_recommendations_raises(state.analysis, profile,
                                        Get(ltm_data, "trends", EmptyDict))

\* C19: when the analyzer, the scorer or the recommender raised, the
\* workflow still ran memory_write and formatter, the failing stage left
\* its safe default (an empty analysis, score 0 with confidence 0.0, empty
\* recommendations and tips), and neither memory_write nor formatter
\* failed.
C19_StageExceptionLeavesSafeDefault ==
    (/\ pc = "ended"
     /\ "reasoning" \in Range(trace)
     /\ ReasoningRaised(task[1]) \/ ScorerRaised(task[1]) \/ RecommenderRaised(task[1])) =>
        LET state == task[1]
        IN  /\ "memory_write" \in Range(trace)
            /\ trace[Len(trace)] = "formatter"
            /\ ReasoningRaised(state) => state.analysis = Some(EmptyDict)
            /\ ScorerRaised(state) => state.sleep_score = 0 /\ state.confidence = Q(0, 1)
            /\ RecommenderRaised(state) =>
                  state.recommendations = Some(EmptyDict) /\ state.personalized_tips = <<>>
            /\ Plain("Memory write error") \notin Range(state.errors)
            /\ Plain("Formatter node error") \notin Range(state.errors)

(***************************************************************************)
(* What process_task returns (specification Spec).  Every node catches its *)
(* own exceptions, so workflow.invoke returns a final state for every task *)
(* and the except block of process_task (lines 136-144) is not entered.    *)
(***************************************************************************)
\* C20: process_task returns for every task that went through the workflow:
\* the record carries the task's task_id and is either 'completed' with a
\* result or 'error' with the errors, and it is 'completed' only when no
\* stage recorded an error and the final status is not 'error'.
C20_ProcessTaskAlwaysAnswers ==
    [][pc = "ended" =>
          /\ pc' = "idle"
          /\ response' # None
          /\ LET r == response'[1]
                 final_state == task[1]
             IN  /\ r.task_id = final_state.task_id
                 /\ \/ r.status = "completed" /\ DOMAIN r = {"task_id", "status", "result"}
                                             /\ r.result # None
                    \/ r.status = "error" /\ DOMAIN r = {"task_id", "status", "error"}
                 /\ r.status = "completed" =>
                        final_state.errors = <<>> /\ final_state.status # "error"]_vars

\* A task that ran through the formatter and was answered with an error that
\* joins the errors of several stages.
C20_Witness ==
    /\ pc = "idle"
    /\ response # None
    /\ response[1].status = "error"
    /\ Len(response[1].error) > 1
    /\ Plain("Formatter node error") \in Range(response[1].error)

(***************************************************************************)
(* Tasks over a long history.  A task may carry up to a thousand sessions  *)
(* (MAX_SLEEP_SESSIONS_PER_TASK); one with a week of nights leaves both    *)
(* stored patterns in LTM, which the next task's recommendation stage      *)
(* reads.                                                                  *)
(***************************************************************************)
WeekLen == 7
MaxWeekTotal == 16

\* A short and broken night.
ShortNight == MkSession("", NaiveDate(STM_RETENTION_DAYS), "23:30", "05:00", 55, 60, 2, 4)

\* Eight nights in the order they were slept, oldest first: seven of six
\* hours, then last night's nine.
LateWeek ==
    [i \in 1..(WeekLen + 1) |->
        MkSession("", NaiveDate(i - 1), "23:30", "05:00",
                  IF i = WeekLen + 1 THEN 90 ELSE 60, 60, 2, 4)]

\* The payloads: nothing, one short night, a week of them, or LateWeek.
WeekPayloads == {<<>>, <<ShortNight>>, Repeat(ShortNight, WeekLen), LateWeek}

WeekTasks ==
    {[task_id |-> "t1", user_id |-> u,
      payload |-> [sleep_sessions |-> sessions, profile |-> EmptyDict]] :
        u \in PipeUsers, sessions \in WeekPayloads}

\* A task is taken while the user's total_sessions_analyzed can stay within
\* MaxWeekTotal.
WeekSubmitAny ==
    \E task_data \in WeekTasks :
        /\ Get(Ltm(task_data.user_id), "total_sessions_analyzed", 0)
               + Len(Stored(task_data.user_id))
               + Len(task_data.payload.sleep_sessions) <= MaxWeekTotal
        /\ Submit(task_data)

WeekNext ==
    \/ WeekSubmitAny
    \/ Validation
    \/ MemoryFetchAny
    \/ Reasoning
    \/ RecommendationEngine
    \/ Scorer
    \/ MemoryWriteAny
    \/ Formatter
    \/ Return

SpecWeek == Init /\ [][WeekNext]_vars

\* The tips persisted for user u.
PersistedTips(u) == Get(Get(Ltm(u), "recommendations", EmptyDict), "personalized_tips", <<>>)

\* C21: the personalized_tips of every task result and of every stored LTM
\* record have at most 6 entries.
C21_AtMostSixTips ==
    /\ \A u \in PipeUsers : Len(PersistedTips(u)) <= MAX_TIPS
    /\ (response # None /\ response[1].status = "completed") =>
          Len(response[1].result[1].personalized_tips) <= MAX_TIPS

(***************************************************************************)
(* The STM record between saves (specification SpecStm).                   *)
(***************************************************************************)
\* C22: in every state, also after time has advanced without a save, every
\* session get_sessions returns is dated on or after now - retention_days.
C22_GetSessionsReturnsNoExpiredSession ==
    \A u \in StmUsers : \A s \in Range(get_sessions(store, u, TRUE)) :
        /\ s.session_date.kind = "naive"
        /\ s.session_date.day >= now - STM_RETENTION_DAYS

\* C23: a stored session is immutable: across every step, an entry whose
\* identity key stays in the STM record keeps all its field values.
C23_StoredSessionImmutable ==
    [][\A u \in StmUsers :
          \A e \in Range(Stored(u)) :
              \A f \in Range(get_sessions(store', u, TRUE)) :
                  SessionKey(f) = SessionKey(e) => f = e]_vars

(***************************************************************************)
(* The LTM trends over calls with long and short session lists             *)
(* (update_trends from memory_write, update_recommendations).              *)
(***************************************************************************)
MaxTrendTotal == 15

\* A night with an efficiency score and a mood, and one with neither.
ScoredNight == MkSession("", NaiveDate(STM_RETENTION_DAYS), "23:00", "06:00", 70, 90, 1, 7)
PlainNight == MkSession("", NaiveDate(STM_RETENTION_DAYS), "22:00", "06:00", 80, 0, 0, 0)

\* The lists passed: none, one night, two nights, a week.
TrendInputs ==
    {<<>>, <<ScoredNight>>, <<PlainNight>>, <<PlainNight, ScoredNight>>,
     Repeat(ScoredNight, WeekLen), Repeat(PlainNight, WeekLen)}

\* ltm.update_trends(u, sessions), while total_sessions_analyzed can stay
\* within MaxTrendTotal.
TrendsUpdate(u, sessions, writeOk) ==
    LET r == update_trends(store, now, u, sessions, TRUE, writeOk)
    IN  /\ Get(Ltm(u), "total_sessions_analyzed", 0) + Len(sessions) <= MaxTrendTotal
        /\ store' = r.store
        /\ last' = [op |-> "update_trends", user |-> u, ok |-> r.ok, sessions |-> sessions,
                    before |-> TrendsOf(store, u)]
        /\ UNCHANGED <<now, reqs, pipevars>>

TrendsUpdateAny ==
    \E u \in LtmUsers, sessions \in TrendInputs, writeOk \in BOOLEAN :
        TrendsUpdate(u, sessions, writeOk)

TrendsNext == TrendsUpdateAny \/ LtmUpdateRecommendationsAny

SpecTrends == LtmInit /\ [][TrendsNext]_vars

RouteSessions ==
    {MkSession("", NaiveDate(STM_RETENTION_DAYS), "22:00", "06:00", 80, 0, 0, 0),
     MkSession("", NaiveDate(STM_RETENTION_DAYS), "22:00", "06:00", 80, 150, 0, 0),
     MkSession("", NaiveDate(STM_RETENTION_DAYS), "23:30", "05:00", 55, 60, 2, 4)}

\* POST /api/sessions with a usable user_id and a non-empty list.
RouteSave(u, sessions) ==
    /\ u # "" /\ sessions # <<>>
    /\ store' = save_sessions(store, now, u, sessions, TRUE, TRUE).store
    /\ UNCHANGED <<now, last, reqs, pipevars>>

RouteSaveAny ==
    \E u \in PipeUsers, sessions \in SeqsUpTo(RouteSessions, MaxPayload) : RouteSave(u, sessions)

\* The tasks sent beside the route: no session or one valid night.
RouteTasks ==
    {task_data \in TaskInputs :
        /\ task_data.user_id \in PipeUsers
        /\ task_data.payload.profile = EmptyDict
        /\ \A s \in Range(task_data.payload.sleep_sessions) :
              s.duration_hours \in {55, 80} /\ s.efficiency_score \in {0, 60}}

RouteSubmitAny ==
    \E task_data \in RouteTasks :
        /\ Get(Ltm(task_data.user_id), "total_sessions_analyzed", 0)
               + Len(Stored(task_data.user_id))
               + Len(task_data.payload.sleep_sessions) <= MaxTotal
        /\ Submit(task_data)

RouteNext ==
    \/ RouteSaveAny
    \/ RouteSubmitAny
    \/ Validation
    \/ MemoryFetchAny
    \/ Reasoning
    \/ RecommendationEngine
    \/ Scorer
    \/ MemoryWriteAny
    \/ Formatter
    \/ Return

SpecRoute == Init /\ [][RouteNext]_vars

\* C25: the sleep_score of every task answered 'completed' is an integer
\* from 0 to 100, whatever valid sessions the payload carries and whatever
\* sessions the user's STM holds.
C25_SleepScoreWithinRange ==
    (response # None /\ response[1].status = "completed") =>
        response[1].result[1].sleep_score \in 0..100

\* C26: after a successful save the stored list is ordered by session_date,
\* newest first: no session stands before one with a later date.
C26_StoredNewestFirst ==
    (last.op = "save" /\ last.ok) =>
        LET ss == Stored(last.user)
        IN  \A i, j \in DOMAIN ss :
                i < j => ss[i].session_date.day >= ss[j].session_date.day

\* A successful save left three sessions stored, the first of a later date
\* than the last.
C26_Witness ==
    /\ last.op = "save" /\ last.ok
    /\ last.probe = None
    /\ Len(Stored(last.user)) = 3
    /\ Stored(last.user)[1].session_date.day > Stored(last.user)[3].session_date.day

(***************************************************************************)
(* The first stages of a task (specification Spec).                        *)
(***************************************************************************)
\* C27: when validation has finished, status is 'error' exactly when an
\* error was recorded and 'processing' otherwise, and the workflow goes on
\* to memory_fetch exactly when status is 'processing'; otherwise it ends.
C27_ValidationStatusMatchesErrors ==
    trace = <<"validation">> =>
        LET state == task[1]
        IN  /\ state.status \in {"error", "processing"}
            /\ state.status = "error" <=> state.errors # <<>>
            /\ state.status = "processing" <=> (pc = "running" /\ active = {"memory_fetch"})
            /\ state.status = "error" <=> (pc = "ended" /\ active = {})

\* Validation finished on a task whose envelope is accepted and whose
\* session failed a per-session check: status 'error', workflow ended.
C27_Witness ==
    /\ trace = <<"validation">>
    /\ validate_task_request([task_id |-> task[1].task_id, user_id |-> task[1].user_id,
                              payload |-> task[1].payload]) = None
    /\ task[1].errors # <<>>
    /\ task[1].status = "error"
    /\ pc = "ended"

\* C28: when the user has no stored STM or no stored LTM record, memory_fetch
\* records no error, yields an empty session list for the missing STM and
\* an empty map for the missing LTM, and the workflow goes on to reasoning.
C28_MissingRecordIsNoError ==
    (/\ trace = <<"validation", "memory_fetch">>
     /\ \/ get_memory(store, task[1].user_id, "stm", TRUE) = None
        \/ get_memory(store, task[1].user_id, "ltm", TRUE) = None) =>
        LET state == task[1]
        IN  /\ state.errors = <<>>
            /\ get_memory(store, state.user_id, "stm", TRUE) = None =>
                  state.stm_sessions = Some(<<>>)
            /\ get_memory(store, state.user_id, "ltm", TRUE) = None =>
                  state.ltm_data = Some(EmptyDict)
            /\ pc = "running" /\ active = {"reasoning"}

\* memory_fetch has returned for a user with neither record, on a task that
\* carries a session.
C28_Witness ==
    /\ trace = <<"validation", "memory_fetch">>
    /\ get_memory(store, task[1].user_id, "stm", TRUE) = None
    /\ get_memory(store, task[1].user_id, "ltm", TRUE) = None
    /\ task[1].payload.sleep_sessions # <<>>
    /\ task[1].memory.stm_count = 0 /\ ~task[1].memory.ltm_available
    /\ active = {"reasoning"}

(***************************************************************************)
(* The weekly average memory_write leaves in LTM (specification SpecWeek). *)
(***************************************************************************)
\* all_sessions of memory_write_node: the STM list memory_fetch read, then
\* the payload.
AnalysedSessions(state) == StmSessionsOf(state) \o PayloadSessions(state)

\* The index sets of n sessions with the most recent session_date: nothing
\* left out is dated after something taken.
MostRecent(sessions, n) ==
    {S \in SUBSET DOMAIN sessions :
        /\ Cardinality(S) = n
        /\ \A i \in S : \A j \in DOMAIN sessions \ S :
               sessions[i].session_date.day >= sessions[j].session_date.day}

\* The sessions at the indices S, in list order.
Pick(sessions, S) ==
    LET idx == SelectSeq([i \in DOMAIN sessions |-> i], LAMBDA i : i \in S)
    IN  [k \in DOMAIN idx |-> sessions[idx[k]]]

\* C29: right after memory_write, when stored STM plus payload hold at
\* least 7 sessions, the stored weekly_avg_duration is the mean duration of
\* 7 sessions with the most recent session_date among them; with fewer than
\* 7 the key is as it was before the task.
C29_WeeklyAverageOfSevenMostRecent ==
    (pc = "running" /\ active = {"formatter"}) =>
        LET state == task[1]
            sessions == AnalysedSessions(state)
            trends == TrendsOf(store, state.user_id)
        IN  IF Len(sessions) >= WeekLen
            THEN \E S \in MostRecent(sessions, WeekLen) :
                    /\ "weekly_avg_duration" \in DOMAIN trends
                    /\ trends.weekly_avg_duration = QAvg(Durations(Pick(sessions, S)))
            ELSE SameAt(TrendsOf(store0[1], state.user_id), trends,
                        "weekly_avg_duration")

\* With fewer than 7 sessions the key is not recomputed.
C29_ShortHistoryKeepsWeeklyAverage ==
    (pc = "running" /\ active = {"formatter"}
        /\ Len(AnalysedSessions(task[1])) < WeekLen) =>
        SameAt(TrendsOf(store0[1], task[1].user_id),
               TrendsOf(store, task[1].user_id), "weekly_avg_duration")

(***************************************************************************)
(* The session counter (specification Spec).  Time stands still and every  *)
(* write succeeds there, so nothing expires: a session a task analyses is  *)
(* either in the STM list it fetched or in its payload, which the same     *)
(* memory_write saves.  The identity keys in STM are then exactly the keys *)
(* of the sessions analysed so far.                                        *)
(***************************************************************************)
\* The identity keys of the sessions stored for user u.
StoredKeys(u) == {SessionKey(s) : s \in Range(Stored(u))}

\* C30: between tasks, total_sessions_analyzed of every user equals the
\* number of distinct sessions (by identity key) analysed for that user so
\* far: a session a later task reads back from STM is not counted again.
C30_TotalCountsDistinctSessions ==
    pc = "idle" =>
        \A u \in PipeUsers :
            Get(Ltm(u), "total_sessions_analyzed", 0) = Cardinality(StoredKeys(u))

(***************************************************************************)
(* What a completed task leaves in LTM (specification Spec: one request at *)
(* a time, every write succeeding).                                        *)
(***************************************************************************)
\* C31: when the workflow has ended and process_task is about to answer
\* 'completed', the user's LTM record holds the sleep_score, confidence,
\* personalized_tips, issues and recommendations of the returned result.
C31_LtmHoldsReturnedResult ==
    (pc = "ended" /\ process_task_response(task[1]).status = "completed") =>
        LET result == process_task_response(task[1]).result[1]
            ltm_data == Ltm(task[1].user_id)
        IN  /\ {"sleep_score", "confidence", "personalized_tips", "issues",
                "recommendations"} \subseteq DOMAIN ltm_data
            /\ ltm_data.sleep_score = result.sleep_score
            /\ ltm_data.confidence = result.confidence
            /\ ltm_data.personalized_tips = result.personalized_tips
            /\ ltm_data.issues = result.issues
            /\ Some(ltm_data.recommendations) = result.recommendations

\* A completed task with sessions, issues and tips is about to be answered,
\* and an earlier task had left another score in LTM.
C31_Witness ==
    /\ pc = "ended"
    /\ process_task_response(task[1]).status = "completed"
    /\ process_task_response(task[1]).result[1].issues # <<>>
    /\ process_task_response(task[1]).result[1].personalized_tips # <<>>
    /\ store0[1][task[1].user_id].ltm # None
    /\ store0[1][task[1].user_id].ltm[1].sleep_score
           # process_task_response(task[1]).result[1].sleep_score

(***************************************************************************)
(* The combined session list of a task (specification Spec).  reasoning    *)
(* and memory_write build it as STM list + payload, the scorer as payload  *)
(* + STM list: the same sessions.                                          *)
(***************************************************************************)
\* No two entries of the list have the same identity key.
DistinctKeys(sessions) ==
    \A i \in DOMAIN sessions : \A j \in DOMAIN sessions :
        i # j => SessionKey(sessions[i]) # SessionKey(sessions[j])

\* C32: once memory_fetch has read STM, the combined list the task
\* analyses, scores and aggregates into LTM trends holds each session
\* identity key at most once, also when the payload re-submits a stored
\* session.
C32_CombinedListHasEachKeyOnce ==
    (task # None /\ task[1].stm_sessions # None) =>
        DistinctKeys(AnalysedSessions(task[1]))

(***************************************************************************)
(* What a save may remove (specification SpecStm, where the read inside    *)
(* save_sessions and the write may each fail).                             *)
(***************************************************************************)
\* C33: across every save_sessions(u, sessions) step, whatever the read
\* and the write did, a stored session that is inside the retention window
\* and whose identity key is not among the new sessions is still stored
\* afterwards.
C33_SaveKeepsSessionsOfOtherKeys ==
    [][\A u \in StmUsers : \A sessions \in SeqsUpTo(StmSessions, MaxSave) :
          \A readOk \in BOOLEAN : \A writeOk \in BOOLEAN :
              (/\ last'.op = "save" /\ last'.user = u
               /\ store' = save_sessions(store, now, u, sessions, readOk, writeOk).store) =>
                  \A e \in Range(Stored(u)) :
                      (/\ InRetention(e, now - STM_RETENTION_DAYS)
                       /\ \A i \in DOMAIN sessions :
                              SessionKey(sessions[i]) # SessionKey(e)) =>
                          e \in Range(get_sessions(store', u, TRUE))]_vars

(***************************************************************************)
(* What a failed task leaves in the store (specification Spec).            *)
(***************************************************************************)
\* C34: when the workflow has ended and process_task is about to answer
\* 'error', the user's STM and LTM records are what they were when the
\* task started.
C34_ErrorTaskWritesNothing ==
    (pc = "ended" /\ process_task_response(task[1]).status = "error") =>
        \A kind \in {"stm", "ltm"} :
            get_memory(store, task[1].user_id, kind, TRUE)
                = get_memory(store0[1], task[1].user_id, kind, TRUE)

(***************************************************************************)
(* Tasks whose sessions differ in session_date (specification SpecDates).  *)
(* The validators look at bedtime, waketime, duration_hours and the two    *)
(* optional scores only, so any session_date is accepted.                  *)
(***************************************************************************)
MaxDateTotal == 4

\* One night per kind of session_date: today, older than the retention
\* window, with a UTC offset, and missing.
DateNights ==
    {MkSession("", date, "22:00", "06:00", 80, 0, 0, 0) :
        date \in {NaiveDate(STM_RETENTION_DAYS), NaiveDate(-1), AwareDate, NoDate}}

DateTasks ==
    {[task_id |-> "t1", user_id |-> u,
      payload |-> [sleep_sessions |-> <<s>>, profile |-> EmptyDict]] :
        u \in PipeUsers, s \in DateNights}

DateSubmitAny ==
    \E task_data \in DateTasks :
        /\ Get(Ltm(task_data.user_id), "total_sessions_analyzed", 0)
               + Len(Stored(task_data.user_id))
               + Len(task_data.payload.sleep_sessions) <= MaxDateTotal
        /\ Submit(task_data)

DateNext ==
    \/ DateSubmitAny
    \/ Validation
    \/ MemoryFetchAny
    \/ Reasoning
    \/ RecommendationEngine
    \/ Scorer
    \/ MemoryWriteAny
    \/ Formatter
    \/ Return

SpecDates == Init /\ [][DateNext]_vars

\* C35: once memory_write has run against the healthy store, every payload
\* session the Validator accepted has its identity key in the user's STM
\* record or has a session_date older than the retention window.
C35_AcceptedSessionStoredOrExpired ==
    (task # None /\ "memory_write" \in Range(trace)
        /\ ValidatorErrors(task[1]) = <<>>) =>
        \A s \in Range(PayloadSessions(task[1])) :
            \/ \E e \in Range(Stored(task[1].user_id)) : SessionKey(e) = SessionKey(s)
            \/ /\ parse_session_date(s) # None
               /\ s.session_date.kind = "naive"
               /\ s.session_date.day < now - STM_RETENTION_DAYS

(***************************************************************************)
(* Concurrent LTM updates (specification SpecLtmRace).  update_trends,     *)
(* update_recommendations and the profile route each read the user's LTM   *)
(* document, change a copy and write the whole copy back; two requests     *)
(* served at once interleave at the read and at the write.                 *)
(***************************************************************************)
MaxRaceTotal == 3

RaceProfile == [age |-> 30]

\* The calls a request makes: update_trends with one night,
\* update_recommendations, or the profile route.
RaceCalls ==
    {[op |-> "update_trends", sessions |-> <<PlainNight>>]}
    \cup {[op |-> "update_recommendations", args |-> a] :
             a \in {b \in LtmRecArgs : b.sleep_score = 85}}
    \cup {[op |-> "save_profile", profile |-> RaceProfile]}

\* save_profile, lines 111-118: the document that is written.
profile_document(ltm_data, profile, t) ==
    LET preferences == Update(Get(ltm_data, "preferences", EmptyDict), [profile |-> profile])
    IN  Update(ltm_data, [preferences |-> preferences, last_updated |-> t])

\* The document a call builds from the LTM document it read.
RaceDocument(call, existing_ltm, t) ==
    IF call.op = "update_trends" THEN trends_document(existing_ltm, call.sessions, t)
    ELSE IF call.op = "update_recommendations"
    THEN recommendations_document(existing_ltm, call.args.recommendations,
             call.args.sleep_score, call.args.confidence, call.args.personalized_tips,
             call.args.issues, t)
    ELSE profile_document(existing_ltm, call.profile, t)

RaceCall(r, u, call) ==
    /\ reqs[r].pc = "idle"
    /\ reqs' = [reqs EXCEPT ![r] = [pc |-> "called", user |-> u, call |-> call]]
    /\ last' = NoCall
    /\ UNCHANGED <<store, now, pipevars>>

\* existing_ltm = self.get_memory(user_id) or {}.  The counter is kept
\* within MaxRaceTotal.
RaceRead(r) ==
    /\ reqs[r].pc = "called"
    /\ reqs[r].call.op = "update_trends" =>
           Get(Ltm(reqs[r].user), "total_sessions_analyzed", 0)
               + Len(reqs[r].call.sessions) <= MaxRaceTotal
    /\ reqs' = [reqs EXCEPT ![r] =
                    [pc |-> "read", user |-> reqs[r].user, call |-> reqs[r].call,
                     existing |-> Ltm(reqs[r].user)]]
    /\ last' = NoCall
    /\ UNCHANGED <<store, now, pipevars>>

\* self.storage.save_memory(user_id, 'ltm', ltm_data)
RaceWrite(r) ==
    /\ reqs[r].pc = "read"
    /\ LET q == reqs[r]
       IN  /\ store' = save_memory(store, q.user, "ltm",
                            RaceDocument(q.call, q.existing, now), TRUE)
           /\ last' = [op |-> q.call.op, user |-> q.user, ok |-> TRUE,
                       read |-> Get(q.existing, "total_sessions_analyzed", 0),
                       before |-> Get(Ltm(q.user), "total_sessions_analyzed", 0)]
    /\ reqs' = [reqs EXCEPT ![r] = IdleRequest]
    /\ UNCHANGED <<now, pipevars>>

RaceCallAny == \E r \in Requests, u \in LtmUsers, call \in RaceCalls : RaceCall(r, u, call)

RaceReadAny == \E r \in Requests : RaceRead(r)

RaceWriteAny == \E r \in Requests : RaceWrite(r)

RaceNext == RaceCallAny \/ RaceReadAny \/ RaceWriteAny

SpecLtmRace == LtmInit /\ [][RaceNext]_vars

\* C36: across every step, under every interleaving of the reads and
\* writes of concurrent update_trends, update_recommendations and profile
\* saves for one user, total_sessions_analyzed does not decrease.
C36_TotalNeverDecreases ==
    [][\A u \in LtmUsers :
          Get(ltm_or_empty(store', u, TRUE), "total_sessions_analyzed", 0)
              >= Get(Ltm(u), "total_sessions_analyzed", 0)]_vars

(***************************************************************************)
(* What one save stores (specification SpecStm; the saves looked at are    *)
(* those whose read and write both succeed, run one at a time).            *)
(***************************************************************************)
\* The sessions a save of `sessions` over the stored list `existing` has to
\* leave: of stored-then-new, the last entry of every identity key, if it
\* is inside the retention window.
ExpectedAfterSave(existing, sessions, cutoff) ==
    LET all == existing \o sessions
    IN  {all[i] : i \in {j \in DOMAIN all :
                            /\ InRetention(all[j], cutoff)
                            /\ \A k \in DOMAIN all :
                                   k > j => SessionKey(all[k]) # SessionKey(all[j])}}

MaxFrameTotal == 2

FrameUsers == {"u1", "u2"}

FrameInit ==
    /\ store = EmptyStore(FrameUsers)
    /\ now = STM_RETENTION_DAYS
    /\ last = NoCall
    /\ reqs = NoRequests
    /\ NoTaskYet

FrameTasks ==
    {[task_id |-> "t1", user_id |-> u,
      payload |-> [sleep_sessions |-> <<PlainNight>>, profile |-> EmptyDict]] :
        u \in FrameUsers}

\* A call is started while the user's counter can stay within MaxFrameTotal.
FrameRoom(u, n) ==
    Get(Ltm(u), "total_sessions_analyzed", 0) + Len(Stored(u)) + n <= MaxFrameTotal

FrameSubmitAny ==
    \E task_data \in FrameTasks :
        /\ FrameRoom(task_data.user_id, 1)
        /\ Submit(task_data)

FrameSaveAny ==
    \E u \in FrameUsers :
        /\ pc = "idle"
        /\ StmSave(u, <<PlainNight>>, 0, TRUE, TRUE)

FrameTrendsAny ==
    \E u \in FrameUsers :
        /\ pc = "idle"
        /\ FrameRoom(u, 1)
        /\ TrendsUpdate(u, <<PlainNight>>, TRUE)

FrameRecommendationsAny ==
    \E u \in FrameUsers, a \in {b \in LtmRecArgs : b.sleep_score = 85} :
        /\ pc = "idle"
        /\ LtmUpdateRecommendations(u, a, TRUE, TRUE)

FrameNext ==
    \/ FrameSubmitAny
    \/ FrameSaveAny
    \/ FrameTrendsAny
    \/ FrameRecommendationsAny
    \/ Validation
    \/ MemoryFetchAny
    \/ Reasoning
    \/ RecommendationEngine
    \/ Scorer
    \/ MemoryWriteAny
    \/ Formatter
    \/ Return

SpecFrame == FrameInit /\ [][FrameNext]_vars

\* The user a step works for: the caller's user of a direct memory call
\* (taken between tasks), the task's user otherwise.
Actor == IF pc = "idle" THEN last'.user ELSE task[1].user_id

\* C38: across every step of a task, STM save, update_trends or
\* update_recommendations for one user, the STM and LTM records of every
\* other user are unchanged.
C38_OtherUsersUntouched ==
    [][\A b \in FrameUsers : b # Actor => store'[b] = store[b]]_vars

\* A task for u1 has written u1's records while u2 has records of its own.
C38_Witness ==
    /\ task # None /\ task[1].user_id = "u1" /\ "memory_write" \in Range(trace)
    /\ store["u1"] # store0[1]["u1"]
    /\ store["u2"].stm # None /\ store["u2"].ltm # None
    /\ store["u2"] = store0[1]["u2"]

(***************************************************************************)
(* Termination of a task whose stages each return (specification          *)
(* SpecLive: the pipeline, every scheduled stage eventually returning and  *)
(* process_task eventually answering).                                     *)
(***************************************************************************)
SpecLive == Init /\ [][Next]_vars /\ StageFairness /\ WF_vars(Return)

\* Every edge the compiled graph can take out of node n.
GraphEdges(n) == IF n = "validation" THEN {"memory_fetch"} ELSE Edges(n)

\* The nodes reachable from the set `from` in at most k further edges.
RECURSIVE ReachableIn(_, _)
ReachableIn(from, k) ==
    IF k = 0 THEN from
    ELSE from \cup ReachableIn(UNION {GraphEdges(n) : n \in from}, k - 1)

Acyclic == \A n \in Nodes : n \notin ReachableIn(GraphEdges(n), Cardinality(Nodes))

\* The workflow has ended through formatter, or out of a failed validation.
Terminal ==
    /\ pc = "ended"
    /\ \/ trace[Len(trace)] = "formatter"
       \/ trace = <<"validation">> /\ should_continue(task[1]) = "error"

\* C39: every task whose stages each return reaches a terminal state (ended
\* through formatter, or in error out of validation); the stage graph has
\* no cycle and no stage runs more than once in a task.
C39_EveryTaskTerminates ==
    /\ (pc = "running") ~> Terminal
    /\ [](pc = "ended" => Terminal)
    /\ [](Acyclic /\ \A n \in Nodes : Times(n) <= 1)

\* A task has run all seven stages, each once, and ended through formatter.
C39_Witness ==
    /\ Terminal
    /\ Len(trace) = Cardinality(Nodes)
    /\ Range(trace) = Nodes
====
